---- MODULE Spec2Model ----
(***************************************************************************)
(* A model of the qrexec multiplexer of qubes-core-admin: the vchan ring   *)
(* (src/vchan/io.c), the framed protocol (src/qrexec/qrexec.h), the daemon *)
(* (src/qrexec/qrexec_daemon.c), the agent (src/qrexec/qrexec_agent.c) and *)
(* the stream buffers (src/qrexec/write_stdin.c, src/qrexec/buffer.c).     *)
(*                                                                         *)
(* The specifications of the module:                                       *)
(*   SpecRing  one direction of the vchan ring, byte by byte;              *)
(*   SpecHdr   the receivers' treatment of one arbitrary frame header;     *)
(*   Spec      the daemon, the agent, their clients and children, with the *)
(*             transport carried frame by frame;                           *)
(*   SpecTrigger  the daemon's sanitization of one trigger record.         *)
(***************************************************************************)
EXTENDS Integers, Sequences, FiniteSets, TLC

VARIABLES
    \* ---- SpecRing: struct vchan_interface, one direction ----
    ring_buf,   \* the byte array buf_in / buf_out
    prod,       \* the producer index (prod_in / prod_out)
    cons,       \* the consumer index (cons_in / cons_out)
    w_pc,       \* the writer's position inside libvchan_write
    w_data,     \* the first avail bytes of libvchan_write's argument data
    w_avail,    \* libvchan_write's local avail
    w_idx,      \* libvchan_write's local real_idx
    r_pc,       \* the reader's position inside libvchan_read
    r_avail,    \* libvchan_read's local avail
    r_idx,      \* libvchan_read's local real_idx
    r_data,     \* the bytes libvchan_read copied to its caller
    sent,       \* history: bytes accepted by writes, not yet matched by a read
    rcvd,       \* history: bytes returned by reads that matched no accepted byte
    server_closed, \* the flag of the side that writes this direction
    client_closed, \* the flag of the side that reads this direction
    \* ---- Spec: the daemon ----
    daemon,     \* clients[], max_client_fd, children_count and the event loop's position
    socks,      \* the daemon's client sockets, by fd: the connection behind each
    d2a,        \* the transport, daemon to agent: frames written and not yet read
    d_pend,     \* frames a daemon handler is still blocked writing
    \* ---- Spec: the agent ----
    agent,      \* client_info[], process_fd[], max_process_fd and the event loop's position
    afds,       \* the agent's descriptors, by fd: the pipe or socket behind each
    a2d,        \* the transport, agent to daemon
    a_pend,     \* frames an agent handler is still blocked writing
    \* ---- Spec: the environment and the histories ----
    next_sess,  \* the number the next accepted client connection gets
    kids,       \* the children of the daemon and of the agent, running and exited
    tool,       \* the local program asking for a connection through the agent
    budget,     \* the failed and the short reads and writes the run may still see
    hist,       \* what the clients' sockets and the children's stdin have seen
    \* ---- SpecHdr: one frame header handed to a receiver ----
    hdr_who,    \* the receiver: "daemon", "agent", or "none" before any header
    hdr_in,     \* the header received
    hdr_res,    \* what the receiver did with it
    \* ---- SpecTrigger: one trigger record handed to the daemon ----
    trig_in,    \* the struct trigger_connect_params as received
    trig_out,   \* the pair of the sanitized params and the argv of the policy child
    \* ---- SpecChildren: the daemon's children ----
    chld,       \* <<children_count, running, zombies, child_exited>>
    \* ---- SpecBuffer: the stream buffers of one process ----
    mem,        \* <<buflen of every buffer, total_mem, exited>>
    \* ---- SpecIsolation: the handlers at work on two records ----
    iso_agent,  \* what the agent's handlers work on
    iso_daemon, \* what the daemon's handlers work on
    iso_ev,     \* <<what the last handler met, the record it was at work on>>
    \* ---- SpecEof: the agent's loop on a transport that its peer may close ----
    ag,         \* <<where the agent is, its exit status, the index its frame read ends at>>
    \* ---- SpecFlow: one iteration of a main loop, on the records of SpecIsolation ----
    lp,         \* <<whose loop, where in it, the descriptors select gave as readable, the one just read>>
    \* ---- SpecDefaultUser: one command body passed from a client to the agent ----
    du,         \* <<where the handler is, the body read, the bytes behind buf, the frame written>>
    \* ---- SpecBuffer: the call of buffer.c that made the last step ----
    bo          \* <<the function, the buffer, len>>

ringVars == <<ring_buf, prod, cons, w_pc, w_data, w_avail, w_idx,
              r_pc, r_avail, r_idx, r_data, sent, rcvd>>

sysVars == <<daemon, socks, d2a, d_pend, agent, afds, a2d, a_pend,
             next_sess, kids, tool, budget, hist>>

hdrVars == <<hdr_who, hdr_in, hdr_res>>

closeVars == <<server_closed, client_closed>>

lateVars == <<ag, lp, du, bo>>

auxVars == <<trig_in, trig_out, chld, mem, iso_agent, iso_daemon, iso_ev, closeVars, lateVars>>

vars == <<ringVars, sysVars, hdrVars, auxVars>>

(***************************************************************************)
(* Helpers                                                                 *)
(***************************************************************************)
Min(a, b) == IF a < b THEN a ELSE b

RECURSIVE Pow2(_)
Pow2(n) == IF n = 0 THEN 1 ELSE 2 * Pow2(n - 1)

\* C's bitwise and of two non-negative integers.
RECURSIVE BitAnd(_, _)
BitAnd(a, b) ==
    IF a = 0 \/ b = 0 THEN 0
    ELSE (IF a % 2 = 1 /\ b % 2 = 1 THEN 1 ELSE 0) + 2 * BitAnd(a \div 2, b \div 2)

\* All sequences over S of length at most n.
SeqsUpTo(S, n) == UNION {[1..k -> S] : k \in 0..n}

(***************************************************************************)
(* The vchan ring (src/vchan/io.c, src/vchan/libvchan.h)                   *)
(***************************************************************************)
\* Bounds of the ring model. The arrays of struct vchan_interface hold 1024
\* and 2048 bytes and VCHAN_RING_IDX is 32 bits wide; the model keeps both a
\* power of two and makes them small enough for the indices to wrap.
RingOrder == 2
IdxBits == 4
MaxReq == 2

RingSize == Pow2(RingOrder)
IdxMod == Pow2(IdxBits)
Byte == {0, 1}

\* uint32_t arithmetic of VCHAN_RING_IDX, and its conversion to int on return.
U32(x) == x % IdxMod
ToInt(x) == IF x >= IdxMod \div 2 THEN x - IdxMod ELSE x

libvchan_data_ready == ToInt(U32(prod - cons))
libvchan_buffer_space == ToInt(U32(RingSize - U32(prod - cons)))

\* real_idx = idx & (ring_size - 1)
RealIdx(idx) == BitAnd(idx, RingSize - 1)

\* Clamp with the first test (avail > size) left out.
ClampNoAvail(avail, size, real_idx) ==
    LET avail_contig == RingSize - real_idx
    IN  IF avail_contig < size THEN avail_contig ELSE size

\* avail after the two clamps of libvchan_write / libvchan_read.
Clamp(avail, size, real_idx) ==
    LET a1 == IF avail > size THEN size ELSE avail
        avail_contig == RingSize - real_idx
    IN  IF avail_contig < a1 THEN avail_contig ELSE a1

\* CopyIn with the destination offset real_idx left out.
CopyInAtStart(buf, real_idx, data, n) ==
    [i \in DOMAIN buf |-> IF i < n THEN data[i + 1] ELSE buf[i]]

\* memcpy(ring + real_idx, data, n)
CopyIn(buf, real_idx, data, n) ==
    [i \in DOMAIN buf |->
        IF i >= real_idx /\ i < real_idx + n THEN data[i - real_idx + 1] ELSE buf[i]]

\* memcpy(data, ring + real_idx, n)
CopyOut(buf, real_idx, n) == [k \in 1..n |-> buf[real_idx + k - 1]]

\* Cancel the common prefix of the two histories.
RECURSIVE Cancel(_, _)
Cancel(s, r) ==
    IF s # <<>> /\ r # <<>> /\ Head(s) = Head(r) THEN Cancel(Tail(s), Tail(r))
    ELSE <<s, r>>

RingInit ==
    /\ ring_buf = [i \in 0..(RingSize - 1) |-> 0]
    /\ prod = 0
    /\ cons = 0
    /\ w_pc = "idle" /\ w_data = <<>> /\ w_avail = 0 /\ w_idx = 0
    /\ r_pc = "idle" /\ r_avail = 0 /\ r_idx = 0 /\ r_data = <<>>
    /\ sent = <<>>
    /\ rcvd = <<>>
    /\ server_closed = FALSE
    /\ client_closed = FALSE

\* libvchan_write, lines 106-114, called when there is space: clamp, find real_idx.
WriteBegin ==
    /\ w_pc = "idle"
    /\ libvchan_buffer_space # 0
    /\ \E data \in SeqsUpTo(Byte, MaxReq) :
        LET avail == Clamp(libvchan_buffer_space, Len(data), RealIdx(prod))
        IN  /\ w_data' = SubSeq(data, 1, avail)
            /\ w_idx' = RealIdx(prod)
            /\ w_avail' = avail
    /\ w_pc' = "copy"
    /\ UNCHANGED <<ring_buf, prod, cons, r_pc, r_avail, r_idx, r_data, sent, rcvd, sysVars, hdrVars, auxVars>>

\* libvchan_write, line 115: memcpy into the ring.
WriteCopy ==
    /\ w_pc = "copy"
    /\ ring_buf' = CopyIn(ring_buf, w_idx, w_data, w_avail)
    /\ w_pc' = "publish"
    /\ UNCHANGED <<prod, cons, w_data, w_avail, w_idx, r_pc, r_avail, r_idx,
                   r_data, sent, rcvd, sysVars, hdrVars, auxVars>>

\* libvchan_write, lines 116-119: advance the producer, notify, return avail.
WritePublish ==
    /\ w_pc = "publish"
    /\ prod' = U32(prod + w_avail)
    /\ sent' = sent \o SubSeq(w_data, 1, w_avail)
    /\ w_pc' = "idle" /\ w_data' = <<>> /\ w_avail' = 0 /\ w_idx' = 0
    /\ UNCHANGED <<ring_buf, cons, r_pc, r_avail, r_idx, r_data, rcvd, sysVars, hdrVars, auxVars>>

\* libvchan_read, lines 131-139, called when there is data: clamp, find real_idx.
ReadBegin ==
    /\ r_pc = "idle"
    /\ libvchan_data_ready # 0
    /\ \E size \in 0..MaxReq :
        /\ r_idx' = RealIdx(cons)
        /\ r_avail' = Clamp(libvchan_data_ready, size, RealIdx(cons))
    /\ r_pc' = "copy"
    /\ UNCHANGED <<ring_buf, prod, cons, w_pc, w_data, w_avail, w_idx, r_data, sent, rcvd, sysVars, hdrVars, auxVars>>

\* libvchan_read, line 140: memcpy out of the ring.
ReadCopy ==
    /\ r_pc = "copy"
    /\ r_data' = CopyOut(ring_buf, r_idx, r_avail)
    /\ r_pc' = "publish"
    /\ UNCHANGED <<ring_buf, prod, cons, w_pc, w_data, w_avail, w_idx, r_avail,
                   r_idx, sent, rcvd, sysVars, hdrVars, auxVars>>

\* libvchan_read, lines 141-144: advance the consumer, notify, return avail.
ReadPublish ==
    /\ r_pc = "publish"
    /\ cons' = U32(cons + r_avail)
    /\ LET c == Cancel(sent, rcvd \o r_data)
       IN  sent' = c[1] /\ rcvd' = c[2]
    /\ r_pc' = "idle" /\ r_avail' = 0 /\ r_idx' = 0 /\ r_data' = <<>>
    /\ UNCHANGED <<ring_buf, prod, w_pc, w_data, w_avail, w_idx, sysVars, hdrVars, auxVars>>

NextRing ==
    \/ WriteBegin
    \/ WriteCopy
    \/ WritePublish
    \/ ReadBegin
    \/ ReadCopy
    \/ ReadPublish

(***************************************************************************)
(* The framed protocol (src/qrexec/qrexec.h)                               *)
(***************************************************************************)
MAX_FDS == 256
MAX_DATA_CHUNK == 4096

MSG_CLIENT_TO_SERVER_EXEC_CMDLINE == 256
MSG_CLIENT_TO_SERVER_JUST_EXEC == 257
MSG_CLIENT_TO_SERVER_CONNECT_EXISTING == 258
MSG_SERVER_TO_AGENT_CONNECT_EXISTING == 259
MSG_SERVER_TO_AGENT_EXEC_CMDLINE == 260
MSG_SERVER_TO_AGENT_JUST_EXEC == 261
MSG_SERVER_TO_AGENT_INPUT == 262
MSG_SERVER_TO_AGENT_CLIENT_END == 263
MSG_XOFF == 264
MSG_XON == 265
MSG_AGENT_TO_SERVER_STDOUT == 266
MSG_AGENT_TO_SERVER_STDERR == 267
MSG_AGENT_TO_SERVER_EXIT_CODE == 268
MSG_AGENT_TO_SERVER_TRIGGER_CONNECT_EXISTING == 269
MSG_SERVER_TO_CLIENT_STDOUT == 270
MSG_SERVER_TO_CLIENT_STDERR == 271
MSG_SERVER_TO_CLIENT_EXIT_CODE == 272

\* sizeof(struct server_header), sizeof(struct trigger_connect_params) and
\* sizeof(int), the payload of EXIT_CODE.
ServerHeaderSize == 12
TriggerParamsSize == 128
StatusSize == 4

WRITE_STDIN_OK == 512
WRITE_STDIN_BUFFERED == 513
WRITE_STDIN_ERROR == 514

\* enum client_flags of the daemon: a state is a set of flag bits.
CLIENT_INVALID == {}
CLIENT_CMDLINE == {"CMDLINE"}
CLIENT_DATA == {"DATA"}
CLIENT_DONT_READ == {"DONT_READ"}
CLIENT_OUTQ_FULL == {"OUTQ_FULL"}
CLIENT_EOF == {"EOF"}
CLIENT_EXITED == {"EXITED"}

\* enum fdtype of the agent.
FDTYPE_INVALID == 0
FDTYPE_STDOUT == 1
FDTYPE_STDERR == 2

(***************************************************************************)
(* Bounds of the system model                                              *)
(***************************************************************************)
\* Client sockets the daemon can hold at once, connections accepted in a run,
\* bytes a client writes, bytes a child writes per stream, trigger requests,
\* and the byte capacity of each transport direction (2048 and 1024 in
\* struct vchan_interface; scaled so that a few frames fill it).
NumClientFds == 1
MaxSessions == 2
MaxIn == 3
MaxOut == 1
MaxTools == 1
D2ACap == 30
A2DCap == 30

\* The events of one run beyond one smooth session: a read or a write that
\* fails with an error, a write that comes back short or with EAGAIN, a read
\* past client_info[] that finds a record, one more client connecting
\* (SessionCost events) and the start of a local program (ToolCost events).
MaxEvents == 2
SessionCost == 1
ToolCost == 2

ClientFds == 0..(NumClientFds - 1)
Sessions == 1..MaxSessions
ExitStatuses == {0}

(***************************************************************************)
(* The transport as the daemon and the agent use it                        *)
(* (src/qrexec/txrx-vchan.c)                                               *)
(***************************************************************************)
\* A frame on the transport: the header's three fields, the number of
\* payload bytes written after the header, their content, and two history
\* fields: the session the frame was produced for and whether buffer_space
\* held the header and the payload when the writer began to write the header.
Frame(type, id, len, paylen, data, tag) ==
    [type |-> type, client_id |-> id, len |-> len, paylen |-> paylen,
     data |-> data, tag |-> tag, fit |-> TRUE]

RECURSIVE Used(_)
Used(ring) ==
    IF ring = <<>> THEN 0
    ELSE ServerHeaderSize + Head(ring).paylen + Used(Tail(ring))

\* buffer_space_vchan_ext: libvchan_buffer_space of the write ring. A frame
\* longer than the ring fills it until the reader has taken the frame.
BufferSpace(ring, cap) == IF Used(ring) >= cap THEN 0 ELSE cap - Used(ring)

\* read_ready_vchan_ext
ReadReady(ring) == ring # <<>>

\* write_all_vchan_ext of the frames of one handler, in order: a frame goes
\* to the ring when it fits, or when the ring is empty (write_all_vchan_ext
\* then loops in libvchan_write while the reader drains it); the frames that
\* do not fit stay with the writer, which is blocked in libvchan_write.
\* The first begun frames were begun before (the writer was blocked on them);
\* the others are begun now.
RECURSIVE WriteAll(_, _, _, _)
WriteAll(ring, frames, cap, begun) ==
    IF frames = <<>> THEN [ring |-> ring, pend |-> <<>>]
    ELSE LET f == Head(frames)
             space == BufferSpace(ring, cap)
             need == ServerHeaderSize + f.paylen
             g == IF begun > 0 THEN f ELSE [f EXCEPT !.fit = (need <= space)]
         IN  IF need <= space \/ ring = <<>>
             THEN WriteAll(Append(ring, g), Tail(frames), cap,
                           IF begun > 0 THEN begun - 1 ELSE 0)
             ELSE [ring |-> ring, pend |-> <<g>> \o Tail(frames)]

\* The writer is inside write_all_vchan_ext, waiting for room.
WriterBlocked(ring, pend, cap) == pend # <<>> \/ Used(ring) > cap

(***************************************************************************)
(* Stream buffers (src/qrexec/buffer.c, src/qrexec/write_stdin.c)          *)
(***************************************************************************)
\* The result of one write(2): the number of bytes written, or -1 with errno
\* EAGAIN (WriteAgain) or another errno (WriteFailed).
WriteFailed == -1
WriteAgain == -2

\* buffer_remove(b, len)
buffer_remove(b, len) == SubSeq(b, len + 1, Len(b))

\* buffer_append(b, data, len)
buffer_append(b, data) == b \o data

\* flush_client_data that returns WRITE_STDIN_OK without sending XON.
flush_client_data_no_xon(buffer, rets) ==
    LET len == IF Len(buffer) > MAX_DATA_CHUNK THEN MAX_DATA_CHUNK ELSE Len(buffer)
        ret == IF rets = <<>> THEN WriteAgain ELSE Head(rets)
    IN  IF ret = WriteFailed
        THEN [code |-> WRITE_STDIN_ERROR, buffer |-> buffer, out |-> <<>>, xon |-> FALSE]
        ELSE IF ret = WriteAgain
        THEN [code |-> WRITE_STDIN_BUFFERED, buffer |-> buffer, out |-> <<>>, xon |-> FALSE]
        ELSE [code |-> WRITE_STDIN_OK, buffer |-> <<>>, out |-> SubSeq(buffer, 1, ret),
              xon |-> FALSE]

\* flush_client_data(fd, clid, buffer) with rets the results of its write
\* calls, in order. Returns the result code, the buffer left, the bytes that
\* reached fd and whether XON was sent.
RECURSIVE flush_client_data(_, _)
flush_client_data(buffer, rets) ==
    LET len == IF Len(buffer) > MAX_DATA_CHUNK THEN MAX_DATA_CHUNK ELSE Len(buffer)
        ret == IF rets = <<>> THEN WriteAgain ELSE Head(rets)
    IN  IF ret = WriteFailed
        THEN [code |-> WRITE_STDIN_ERROR, buffer |-> buffer, out |-> <<>>, xon |-> FALSE]
        ELSE IF ret = WriteAgain
        THEN [code |-> WRITE_STDIN_BUFFERED, buffer |-> buffer, out |-> <<>>, xon |-> FALSE]
        ELSE LET rest == buffer_remove(buffer, len)
                 out == SubSeq(buffer, 1, ret)
             IN  IF rest = <<>>
                 THEN [code |-> WRITE_STDIN_OK, buffer |-> rest, out |-> out, xon |-> TRUE]
                 ELSE LET r == flush_client_data(rest, IF rets = <<>> THEN rets ELSE Tail(rets))
                      IN  [r EXCEPT !.out = out \o @]

\* write_stdin(fd, clid, data, len, buffer): the write loop gets n bytes out
\* (0 <= n <= len) and then ends as stop says: "DONE" (n = len), "EAGAIN" or
\* "ERROR". Returns the result code, the buffer, the bytes that reached fd
\* and whether XOFF was sent.
write_stdin(buffer, data, n, stop) ==
    IF Len(buffer) # 0
    THEN [code |-> WRITE_STDIN_BUFFERED, buffer |-> buffer_append(buffer, data),
          out |-> <<>>, xoff |-> FALSE]
    ELSE IF n = Len(data)
    THEN [code |-> WRITE_STDIN_OK, buffer |-> buffer, out |-> data, xoff |-> FALSE]
    ELSE IF stop = "ERROR"
    THEN [code |-> WRITE_STDIN_ERROR, buffer |-> buffer,
          out |-> SubSeq(data, 1, n), xoff |-> FALSE]
    ELSE [code |-> WRITE_STDIN_BUFFERED,
          buffer |-> buffer_append(buffer, SubSeq(data, n + 1, Len(data))),
          out |-> SubSeq(data, 1, n), xoff |-> TRUE]

\* The results write(2) can give when asked for len bytes (len > 0).
WriteRets(len) == (IF len = 0 THEN {0} ELSE 1..len) \cup {WriteAgain, WriteFailed}

\* The ways the write loop of write_stdin can go when asked for len bytes.
WriteRuns(len) ==
    {[n |-> len, stop |-> "DONE"]}
    \cup {[n |-> k, stop |-> s] : k \in 0..(len - 1), s \in {"EAGAIN", "ERROR"}}

\* What a run of the write loop, one write and one read take from the budget
\* of events.
RunCost(run) == IF run.stop = "DONE" THEN 0 ELSE 1
WriteCost(ret, len) == IF ret < 0 \/ ret < len THEN 1 ELSE 0
ReadCost(ret) == IF ret < 0 THEN 1 ELSE 0
Affordable(c) == c <= budget
Spend(c) == budget' = budget - c

(***************************************************************************)
(* The daemon (src/qrexec/qrexec_daemon.c)                                 *)
(***************************************************************************)
MAX_CLIENTS == MAX_FDS
MAX_CHILDREN == 10

\* strlen("DEFAULT"), strlen(default_user) with default_user = "user", and
\* the bytes of a command line after the user name: ":", one letter, NUL.
default_user_keyword_len_without_colon == 7
default_user_len == 4
CmdTailLen == 3
IdentLen == 6

\* A command line as the client sends it: the user name before the colon and
\* the number of bytes of the whole NUL-terminated string.
Cmdline(user) ==
    [user |-> user, ident |-> <<>>,
     len |-> (IF user = "DEFAULT" THEN default_user_keyword_len_without_colon ELSE 1)
             + CmdTailLen]

\* The body of CONNECT_EXISTING: the three descriptors the agent gave out.
Ident(fds) == [user |-> "", ident |-> fds, len |-> IdentLen]

\* read_all returned 0: the client closed before the header or the body came.
ReadEof == -1
NoBody == [user |-> "", ident |-> <<>>, len |-> 0]

\* s_hdr->len after lines 245-246.
LenRewritten(len) == len - default_user_keyword_len_without_colon + default_user_len

NoClient == [state |-> CLIENT_INVALID, buffer |-> <<>>]
ClosedSock == [sess |-> 0, stage |-> "closed", nread |-> 0, eof |-> FALSE]

SetMax(S) == CHOOSE x \in S : \A y \in S : y <= x
SetMin(S) == CHOOSE x \in S : \A y \in S : x <= y

DaemonInit ==
    /\ daemon = [clients |-> [fd \in ClientFds |-> NoClient],
                 max_client_fd |-> -1,
                 children_count |-> 0,
                 child_exited |-> FALSE,
                 pc |-> "top", blk |-> -1, exited |-> FALSE]
    /\ socks = [fd \in ClientFds |-> ClosedSock]
    /\ d2a = <<>>
    /\ d_pend = <<>>

\* What a daemon handler works on: the daemon's globals, the sockets, what
\* has reached each client, and the frames the handler has written so far.
DaemonWorld(tag) ==
    [clients |-> daemon.clients, max_client_fd |-> daemon.max_client_fd,
     children_count |-> daemon.children_count, exited |-> daemon.exited,
     socks |-> socks, hist |-> hist, out |-> <<>>,
     forked |-> 0, policy |-> FALSE, tag |-> tag]

\* What the daemon writes to a client socket: the client_header and the
\* payload bytes of a frame of session tag.
ClientHeader(type, len, tag) == [type |-> type, len |-> len, tag |-> tag]
ClientByte(v, tag) == [byte |-> v, tag |-> tag]

\* write(fd, ...) on client socket fd reaches the connection behind it; the
\* history notes a header or a byte that was produced for another session.
ToClient(w, fd, toks) ==
    LET s == w.socks[fd].sess
    IN  IF s = 0 \/ toks = <<>> THEN w
        ELSE [w EXCEPT !.hist.got = @ \cup {s},
                       !.hist.crossed = @ \/ \E k \in 1..Len(toks) : toks[k].tag # s]

\* do_accept: the descriptors accept may return. It gives the lowest free
\* descriptor of the process: the lowest free one of the model's clients, or,
\* in a process whose descriptors below MAX_FDS are all in use, MAX_FDS.
do_accept(sk) ==
    LET free == {i \in ClientFds : sk[i].sess = 0}
    IN  (IF free = {} THEN {} ELSE {SetMin(free)}) \cup {MAX_FDS}

\* handle_new_client with the test of line 196 left out.
handle_new_client_unchecked(w, fd, sess) ==
    [w EXCEPT !.max_client_fd = IF fd > @ THEN fd ELSE @]

\* handle_new_client, fd being what do_accept returned.
handle_new_client(w, fd, sess) ==
    IF fd >= MAX_CLIENTS THEN [w EXCEPT !.exited = TRUE]
    ELSE [w EXCEPT !.clients[fd] = [state |-> CLIENT_CMDLINE, buffer |-> <<>>],
                   !.socks[fd] = [sess |-> sess, stage |-> "hdr", nread |-> 0, eof |-> FALSE],
                   !.max_client_fd = IF fd > @ THEN fd ELSE @]

\* terminate_client_and_flush_data without the CLIENT_END of lines 227-230.
terminate_client_silently(w, fd) ==
    LET cl == w.clients[fd]
        flush == ("EXITED" \notin cl.state) /\ cl.buffer # <<>>
        w1 == IF flush THEN ToClient(w, fd, cl.buffer) ELSE w
        c2 == [w.clients EXCEPT ![fd] = NoClient]
        valid == {i \in 0..fd : c2[i].state # CLIENT_INVALID}
    IN  [w1 EXCEPT
            !.children_count = IF flush THEN @ + 1 ELSE @,
            !.forked = IF flush THEN @ + 1 ELSE @,
            !.socks[fd] = ClosedSock,
            !.clients = c2,
            !.max_client_fd = IF @ = fd
                              THEN (IF valid = {} THEN -1 ELSE SetMax(valid))
                              ELSE @]

\* terminate_client_and_flush_data. The scan of line 223 reads clients[-1]
\* when no client is left; whatever it finds there, max_client_fd ends
\* negative, and every use of a negative max_client_fd behaves as -1.
terminate_client_and_flush_data(w, fd) ==
    LET cl == w.clients[fd]
        flush == ("EXITED" \notin cl.state) /\ cl.buffer # <<>>
        w1 == IF flush THEN ToClient(w, fd, cl.buffer) ELSE w
        c2 == [w.clients EXCEPT ![fd] = NoClient]
        valid == {i \in 0..fd : c2[i].state # CLIENT_INVALID}
    IN  [w1 EXCEPT
            !.children_count = IF flush THEN @ + 1 ELSE @,
            !.forked = IF flush THEN @ + 1 ELSE @,
            !.socks[fd] = ClosedSock,
            !.clients = c2,
            !.max_client_fd = IF @ = fd
                              THEN (IF valid = {} THEN -1 ELSE SetMax(valid))
                              ELSE @,
            !.out = Append(@, Frame(MSG_SERVER_TO_AGENT_CLIENT_END, fd, 0, 0, <<>>, w.tag))]

\* get_cmdline_body_from_client_and_pass_to_agent, then lines 286-289 of
\* handle_cmdline_message_from_client. body is NoBody when the client closed
\* before the whole body came, else the command line.
get_cmdline_body_from_client_and_pass_to_agent(w, fd, ctype, stype, body) ==
    IF body = NoBody THEN terminate_client_and_flush_data(w, fd)
    ELSE LET use_default_user == body.user = "DEFAULT"
             len == IF use_default_user THEN LenRewritten(body.len) ELSE body.len
             written == IF use_default_user
                        THEN default_user_len
                             + (body.len - default_user_keyword_len_without_colon)
                        ELSE body.len
             sent_body == IF use_default_user THEN [body EXCEPT !.user = "user"] ELSE body
             w1 == [w EXCEPT
                      !.out = Append(@, Frame(stype, fd, len, written, <<sent_body>>, w.tag)),
                      !.clients[fd].state = CLIENT_DATA,
                      !.socks[fd].stage = "data"]
         IN  IF ctype = MSG_CLIENT_TO_SERVER_JUST_EXEC
             THEN terminate_client_and_flush_data([w1 EXCEPT !.hist.just = @ \cup {w.tag}], fd)
             ELSE w1

\* handle_cmdline_message_from_client. hdr is ReadEof when read_all returned 0,
\* else the type field of the client_header.
handle_cmdline_message_from_client(w, fd, hdr, body) ==
    IF hdr = ReadEof THEN terminate_client_and_flush_data(w, fd)
    ELSE IF hdr = MSG_CLIENT_TO_SERVER_EXEC_CMDLINE
    THEN get_cmdline_body_from_client_and_pass_to_agent(
             w, fd, hdr, MSG_SERVER_TO_AGENT_EXEC_CMDLINE, body)
    ELSE IF hdr = MSG_CLIENT_TO_SERVER_JUST_EXEC
    THEN get_cmdline_body_from_client_and_pass_to_agent(
             w, fd, hdr, MSG_SERVER_TO_AGENT_JUST_EXEC, body)
    ELSE IF hdr = MSG_CLIENT_TO_SERVER_CONNECT_EXISTING
    THEN get_cmdline_body_from_client_and_pass_to_agent(
             w, fd, hdr, MSG_SERVER_TO_AGENT_CONNECT_EXISTING, body)
    ELSE terminate_client_and_flush_data(w, fd)

\* handle_message_from_client past line 303: the client is not in state
\* CLIENT_CMDLINE. ret is the result of read(fd, buf, len - sizeof s_hdr):
\* -1, 0 at end of input, or the number of bytes read.
handle_data_from_client(w, fd, ret) ==
    LET len == BufferSpace(d2a, D2ACap)
        sk == w.socks[fd]
        inData == sk.stage = "data"
        data == IF inData THEN [k \in 1..ret |-> sk.nread + k] ELSE [k \in 1..ret |-> 0]
    IN  IF len <= ServerHeaderSize THEN w
        ELSE IF ret < 0 THEN terminate_client_and_flush_data(w, fd)
        ELSE LET w1 == [w EXCEPT
                          !.out = Append(@, Frame(MSG_SERVER_TO_AGENT_INPUT, fd, ret, ret,
                                                  data, w.tag)),
                          !.socks[fd] = IF sk.sess = 0 THEN sk
                                        ELSE [sk EXCEPT
                                                !.nread = IF inData THEN @ + ret ELSE @,
                                                !.stage = IF inData THEN @ ELSE "garbled",
                                                !.eof = (ret = 0)],
                          !.clients[fd].state =
                              IF ret = 0 THEN @ \cup CLIENT_DONT_READ \cup CLIENT_EOF ELSE @]
             IN  IF "EXITED" \in w1.clients[fd].state
                 THEN terminate_client_and_flush_data(w1, fd)
                 ELSE w1

\* write_buffered_data_to_client that leaves CLIENT_OUTQ_FULL set when the
\* buffer has been written out.
write_buffered_data_keeps_flag(w, client_id, ret) ==
    LET r == flush_client_data(w.clients[client_id].buffer, <<ret>>)
        w1 == [ToClient(w, client_id, r.out) EXCEPT
                 !.clients[client_id].buffer = r.buffer,
                 !.out = IF r.xon
                         THEN Append(@, Frame(MSG_XON, client_id, 0, 0, <<>>, w.tag))
                         ELSE @]
    IN  IF r.code = WRITE_STDIN_ERROR
        THEN LET w2 == [w1 EXCEPT !.clients[client_id].state = @ \cup CLIENT_EXITED]
             IN  IF "EOF" \in w2.clients[client_id].state
                 THEN terminate_client_and_flush_data(w2, client_id)
                 ELSE [w2 EXCEPT !.clients[client_id].state = @ \ CLIENT_OUTQ_FULL]
        ELSE w1

\* write_buffered_data_to_client, with ret the result of the write in
\* flush_client_data.
write_buffered_data_to_client(w, client_id, ret) ==
    LET r == flush_client_data(w.clients[client_id].buffer, <<ret>>)
        w1 == [ToClient(w, client_id, r.out) EXCEPT
                 !.clients[client_id].buffer = r.buffer,
                 !.out = IF r.xon
                         THEN Append(@, Frame(MSG_XON, client_id, 0, 0, <<>>, w.tag))
                         ELSE @]
    IN  IF r.code = WRITE_STDIN_OK
        THEN [w1 EXCEPT !.clients[client_id].state = @ \ CLIENT_OUTQ_FULL]
        ELSE IF r.code = WRITE_STDIN_ERROR
        THEN LET w2 == [w1 EXCEPT !.clients[client_id].state = @ \cup CLIENT_EXITED]
             IN  IF "EOF" \in w2.clients[client_id].state
                 THEN terminate_client_and_flush_data(w2, client_id)
                 ELSE [w2 EXCEPT !.clients[client_id].state = @ \ CLIENT_OUTQ_FULL]
        ELSE w1

\* get_packet_data_from_agent_and_pass_to_client: the client_header and the
\* payload go to write_stdin; n and stop say how that write went.
get_packet_data_from_agent_and_pass_to_client(w, client_id, ctype, f, n, stop) ==
    IF "EXITED" \in w.clients[client_id].state THEN w
    ELSE LET toks == <<ClientHeader(ctype, f.len, f.tag)>>
                     \o [k \in 1..Len(f.data) |-> ClientByte(f.data[k], f.tag)]
             r == write_stdin(w.clients[client_id].buffer, toks, n, stop)
             w1 == [ToClient(w, client_id, r.out) EXCEPT
                      !.clients[client_id].buffer = r.buffer,
                      !.out = IF r.xoff
                              THEN Append(@, Frame(MSG_XOFF, client_id, 0, 0, <<>>, w.tag))
                              ELSE @]
         IN  IF r.code = WRITE_STDIN_BUFFERED
             THEN [w1 EXCEPT !.clients[client_id].state = @ \cup CLIENT_OUTQ_FULL]
             ELSE IF r.code = WRITE_STDIN_ERROR
             THEN LET w2 == [w1 EXCEPT !.clients[client_id].state = @ \cup CLIENT_EXITED]
                  IN  IF "EOF" \in w2.clients[client_id].state
                      THEN terminate_client_and_flush_data(w2, client_id)
                      ELSE w2
             ELSE w1

\* check_client_id_in_range with > in the place of >=.
check_client_id_above_range(untrusted_client_id) ==
    ~(untrusted_client_id > MAX_CLIENTS \/ untrusted_client_id < 0)

\* check_client_id_in_range: TRUE when the daemon goes on.
check_client_id_in_range(untrusted_client_id) ==
    ~(untrusted_client_id >= MAX_CLIENTS \/ untrusted_client_id < 0)

\* sanitize_message_from_agent: TRUE when the daemon goes on, FALSE when it
\* exits. The fields of the header are unsigned.
sanitize_message_from_agent(untrusted_header) ==
    IF untrusted_header.type = MSG_AGENT_TO_SERVER_TRIGGER_CONNECT_EXISTING THEN TRUE
    ELSE IF untrusted_header.type \in {MSG_AGENT_TO_SERVER_STDOUT,
                                       MSG_AGENT_TO_SERVER_STDERR,
                                       MSG_AGENT_TO_SERVER_EXIT_CODE}
    THEN /\ check_client_id_in_range(untrusted_header.client_id)
         /\ ~(untrusted_header.len > MAX_DATA_CHUNK \/ untrusted_header.len < 0)
    ELSE IF untrusted_header.type \in {MSG_XOFF, MSG_XON}
    THEN check_client_id_in_range(untrusted_header.client_id)
    ELSE FALSE

\* The bytes handle_message_from_agent reads from the transport after the
\* header s_hdr.
DaemonPayloadRead(s_hdr) ==
    IF s_hdr.type = MSG_AGENT_TO_SERVER_TRIGGER_CONNECT_EXISTING THEN TriggerParamsSize
    ELSE IF s_hdr.type \in {MSG_XOFF, MSG_XON} THEN 0
    ELSE s_hdr.len

\* reap_children of the daemon, with zombies the number of children that
\* have exited.
daemon_reap_children(d, zombies) ==
    [d EXCEPT !.children_count = @ - zombies, !.child_exited = FALSE]

\* handle_execute_predefined_command: the policy child is forked.
handle_execute_predefined_command(w) ==
    LET cc == IF w.children_count > MAX_CHILDREN THEN w.children_count - 1
              ELSE w.children_count
    IN  [w EXCEPT !.children_count = cc + 1, !.forked = @ + 1, !.policy = TRUE]

\* handle_message_from_agent for the frame f at the head of the transport.
handle_message_from_agent(w, f, n, stop) ==
    IF ~sanitize_message_from_agent(f) THEN [w EXCEPT !.exited = TRUE]
    ELSE IF f.type = MSG_AGENT_TO_SERVER_TRIGGER_CONNECT_EXISTING
    THEN handle_execute_predefined_command(w)
    ELSE IF f.type = MSG_XOFF
    THEN [w EXCEPT !.clients[f.client_id].state = @ \cup CLIENT_DONT_READ]
    ELSE IF f.type = MSG_XON
    THEN [w EXCEPT !.clients[f.client_id].state = @ \ CLIENT_DONT_READ]
    ELSE IF w.clients[f.client_id].state = CLIENT_INVALID THEN w
    ELSE LET ctype == IF f.type = MSG_AGENT_TO_SERVER_STDOUT
                      THEN MSG_SERVER_TO_CLIENT_STDOUT
                      ELSE IF f.type = MSG_AGENT_TO_SERVER_STDERR
                      THEN MSG_SERVER_TO_CLIENT_STDERR
                      ELSE MSG_SERVER_TO_CLIENT_EXIT_CODE
             w1 == get_packet_data_from_agent_and_pass_to_client(
                       w, f.client_id, ctype, f, n, stop)
         IN  IF f.type = MSG_AGENT_TO_SERVER_EXIT_CODE
             THEN terminate_client_and_flush_data(w1, f.client_id)
             ELSE w1

(***************************************************************************)
(* The agent (src/qrexec/qrexec_agent.c)                                   *)
(***************************************************************************)
\* The agent's descriptors: the first one free after init() and how many the
\* process may hold. process_fd[] is also indexed by 0, the value of the
\* descriptor fields of a client_info[] entry that was never filled in.
AgentFirstFd == 3
NumAgentFds == 12
AFds == AgentFirstFd..(AgentFirstFd + NumAgentFds - 1)
PFds == {0} \cup AFds

\* What the build may have placed in the word before process_fd[0], where
\* set_blocked_outerr stores when stdout_fd or stderr_fd is -1: nothing the
\* agent reads again, or child_exited. (process_fd[] is not initialised and
\* lies with the zeroed data; max_process_fd is initialised and does not.)
OobTargets == {"pad", "child_exited"}

FreeFd == [kind |-> "free", sess |-> 0, n |-> 0]
NoInfo == [stdin_fd |-> 0, stdout_fd |-> 0, stderr_fd |-> 0, exit_status |-> 0,
           is_exited |-> 0, pid |-> 0, is_blocked |-> 0,
           is_close_after_flush_needed |-> 0, buffer |-> <<>>, sess |-> 0]
NoProcessFd == [client_id |-> 0, type |-> FDTYPE_INVALID, is_blocked |-> 0]

AgentInit ==
    /\ agent = [client_info |-> [id \in ClientFds |-> NoInfo],
                process_fd |-> [fd \in PFds |-> NoProcessFd],
                max_process_fd |-> -1,
                child_exited |-> FALSE,
                pc |-> "top", exited |-> FALSE]
    /\ afds = [fd \in AFds |-> FreeFd]
    /\ a2d = <<>>
    /\ a_pend = <<>>

\* What an agent handler works on.
AgentWorld ==
    [client_info |-> agent.client_info, process_fd |-> agent.process_fd,
     max_process_fd |-> agent.max_process_fd, child_exited |-> agent.child_exited,
     exited |-> agent.exited, afds |-> afds, hist |-> hist,
     out |-> <<>>, started |-> {}, created |-> {}]

\* The k lowest members of S, in order.
RECURSIVE Lowest(_, _)
Lowest(S, k) ==
    IF k = 0 \/ S = {} THEN <<>>
    ELSE LET m == SetMin(S) IN <<m>> \o Lowest(S \ {m}, k - 1)

FreeFds(w) == {fd \in AFds : w.afds[fd].kind = "free"}

\* close(fd)
Close(w, fd) == IF fd \in AFds THEN [w EXCEPT !.afds[fd] = FreeFd] ELSE w

\* The history of one stdin after the bytes toks: how many bytes it has seen,
\* and whether one of them was not the next byte its client sent.
RECURSIVE NoteStdin(_, _)
NoteStdin(h, toks) ==
    IF toks = <<>> THEN h
    ELSE NoteStdin([n |-> h.n + 1, bad |-> h.bad \/ Head(toks) # h.n + 1], Tail(toks))

\* write(fd, ...) of the bytes toks of session tag reaches the stdin of the
\* child (or the local program) behind fd.
ToStdin(w, fd, toks, tag) ==
    IF fd \notin AFds \/ toks = <<>> THEN w
    ELSE LET s == w.afds[fd].sess
         IN  IF s = 0 THEN w
             ELSE [w EXCEPT !.hist.stdin[s] = NoteStdin(@, toks),
                            !.hist.stdin_crossed = @ \/ tag # s]

\* update_max_process_fd. The scan reads process_fd[-1] when no entry is
\* valid; whatever it finds, max_process_fd ends negative, and every use of
\* a negative max_process_fd behaves as -1.
update_max_process_fd(w) ==
    LET valid == {i \in PFds : i <= w.max_process_fd
                               /\ w.process_fd[i].type # FDTYPE_INVALID}
    IN  [w EXCEPT !.max_process_fd = IF valid = {} THEN -1 ELSE SetMax(valid)]

\* create_info_about_client
create_info_about_client(w, client_id, pid, stdin_fd, stdout_fd, stderr_fd, tag) ==
    LET m1 == IF stderr_fd > w.max_process_fd THEN stderr_fd ELSE w.max_process_fd
        m2 == IF stdout_fd > m1 THEN stdout_fd ELSE m1
    IN  [w EXCEPT
            !.process_fd = [[@ EXCEPT ![stdout_fd] =
                                [client_id |-> client_id, type |-> FDTYPE_STDOUT,
                                 is_blocked |-> 0]]
                            EXCEPT ![stderr_fd] =
                                [client_id |-> client_id, type |-> FDTYPE_STDERR,
                                 is_blocked |-> 0]],
            !.max_process_fd = m2,
            !.client_info[client_id] =
                [stdin_fd |-> stdin_fd, stdout_fd |-> stdout_fd, stderr_fd |-> stderr_fd,
                 exit_status |-> 0, is_exited |-> 0, pid |-> pid, is_blocked |-> 0,
                 is_close_after_flush_needed |-> 0, buffer |-> <<>>, sess |-> tag],
            !.created = @ \cup {client_id}]

\* do_fork_exec and handle_exec: three pipes take the six lowest free
\* descriptors, the parent keeps inpipe[1], outpipe[0] and errpipe[0]. The
\* child's pid is the number of its session. pipe() fails and the agent
\* exits when the descriptors run out.
handle_exec(w, client_id, tag) ==
    LET x == Lowest(FreeFds(w), 6)
    IN  IF Len(x) < 6 THEN [w EXCEPT !.exited = TRUE]
        ELSE LET w1 == [w EXCEPT
                          !.afds = [[[@ EXCEPT ![x[2]] = [kind |-> "in", sess |-> tag, n |-> 0]]
                                     EXCEPT ![x[3]] = [kind |-> "out", sess |-> tag, n |-> 0]]
                                     EXCEPT ![x[5]] = [kind |-> "err", sess |-> tag, n |-> 0]],
                          !.started = @ \cup {tag}]
             IN  create_info_about_client(w1, client_id, tag, x[2], x[3], x[5], tag)

\* handle_just_exec doing what handle_exec does: pipes and a process record.
handle_just_exec_with_record(w, client_id, tag) == handle_exec(w, client_id, tag)

\* handle_just_exec: the child is forked with /dev/null on its descriptors.
handle_just_exec(w, client_id, tag) == [w EXCEPT !.started = @ \cup {tag}]

\* handle_connect_existing: ident holds the three descriptors that
\* handle_new_passfd gave out.
handle_connect_existing(w, client_id, ident, tag) ==
    LET w1 == create_info_about_client(w, client_id, -1, ident[1], ident[2], ident[3], tag)
    IN  [w1 EXCEPT !.client_info[client_id].is_exited = 1,
                   !.afds = [fd \in AFds |->
                               IF fd \in {ident[1], ident[2], ident[3]}
                               THEN [@[fd] EXCEPT !.sess = tag] ELSE @[fd]]]

\* send_exit_code
send_exit_code(w, client_id, status) ==
    [w EXCEPT !.out = Append(@, Frame(MSG_AGENT_TO_SERVER_EXIT_CODE, client_id,
                                      StatusSize, StatusSize, <<status>>,
                                      w.client_info[client_id].sess))]

\* remove_process with the test of line 260 left out: every valid entry of
\* process_fd[] is closed, whatever its client_id.
remove_process_all_fds(w, client_id, status) ==
    LET info == w.client_info[client_id]
        w0 == ToStdin(w, info.stdin_fd, info.buffer, info.sess)
        w1 == IF status # -1 THEN send_exit_code(w0, client_id, status) ELSE w0
        w2 == Close(w1, info.stdin_fd)
        mine == {i \in PFds : /\ i <= w.max_process_fd
                              /\ w.process_fd[i].type # FDTYPE_INVALID}
        w3 == [w2 EXCEPT
                 !.client_info[client_id] =
                     [@ EXCEPT !.pid = 0, !.stdin_fd = -1, !.is_blocked = 0,
                               !.buffer = <<>>],
                 !.process_fd = [i \in PFds |->
                                   IF i \in mine
                                   THEN [client_id |-> -1, type |-> FDTYPE_INVALID,
                                         is_blocked |-> 0]
                                   ELSE @[i]],
                 !.afds = [fd \in AFds |-> IF fd \in mine THEN FreeFd ELSE @[fd]]]
    IN  IF info.pid = 0 THEN w ELSE update_max_process_fd(w3)

\* remove_process with the loop of lines 258-265 left out: the entries of
\* process_fd[] that belong to client_id stay valid.
remove_process_keeps_fds(w, client_id, status) ==
    LET info == w.client_info[client_id]
        w0 == ToStdin(w, info.stdin_fd, info.buffer, info.sess)
        w1 == IF status # -1 THEN send_exit_code(w0, client_id, status) ELSE w0
        w2 == Close(w1, info.stdin_fd)
    IN  IF info.pid = 0 THEN w
        ELSE [w2 EXCEPT !.client_info[client_id] =
                           [@ EXCEPT !.pid = 0, !.stdin_fd = -1, !.is_blocked = 0,
                                     !.buffer = <<>>]]

\* remove_process
remove_process(w, client_id, status) ==
    LET info == w.client_info[client_id]
        w0 == ToStdin(w, info.stdin_fd, info.buffer, info.sess)
        w1 == IF status # -1 THEN send_exit_code(w0, client_id, status) ELSE w0
        w2 == Close(w1, info.stdin_fd)
        mine == {i \in PFds : /\ i <= w.max_process_fd
                              /\ w.process_fd[i].type # FDTYPE_INVALID
                              /\ w.process_fd[i].client_id = client_id}
        w3 == [w2 EXCEPT
                 !.client_info[client_id] =
                     [@ EXCEPT !.pid = 0, !.stdin_fd = -1, !.is_blocked = 0,
                               !.buffer = <<>>],
                 !.process_fd = [i \in PFds |->
                                   IF i \in mine
                                   THEN [client_id |-> -1, type |-> FDTYPE_INVALID,
                                         is_blocked |-> 0]
                                   ELSE @[i]],
                 !.afds = [fd \in AFds |-> IF fd \in mine THEN FreeFd ELSE @[fd]]]
    IN  IF info.pid = 0 THEN w ELSE update_max_process_fd(w3)

\* possibly_remove_process without the test of is_exited.
possibly_remove_process_unreaped(w, client_id) ==
    LET info == w.client_info[client_id]
    IN  IF info.stdout_fd = -1 /\ info.stderr_fd = -1
        THEN remove_process(w, client_id, info.exit_status)
        ELSE w

\* possibly_remove_process
possibly_remove_process(w, client_id) ==
    LET info == w.client_info[client_id]
    IN  IF info.stdout_fd = -1 /\ info.stderr_fd = -1 /\ info.is_exited # 0
        THEN remove_process(w, client_id, info.exit_status)
        ELSE w

\* handle_input for the payload data of an INPUT frame of session tag; n and
\* stop say how the write loop of write_stdin went.
handle_input(w, client_id, data, tag, n, stop) ==
    LET info == w.client_info[client_id]
    IN  IF info.pid = 0 THEN w
        ELSE IF Len(data) = 0
        THEN IF info.is_blocked # 0
             THEN [w EXCEPT !.client_info[client_id].is_close_after_flush_needed = 1]
             ELSE [Close(w, info.stdin_fd) EXCEPT !.client_info[client_id].stdin_fd = -1]
        ELSE LET r == write_stdin(info.buffer, data, n, stop)
                 w1 == [ToStdin(w, info.stdin_fd, r.out, tag) EXCEPT
                          !.client_info[client_id].buffer = r.buffer,
                          !.out = IF r.xoff
                                  THEN Append(@, Frame(MSG_XOFF, client_id, 0, 0, <<>>,
                                                       info.sess))
                                  ELSE @]
             IN  IF r.code = WRITE_STDIN_BUFFERED
                 THEN [w1 EXCEPT !.client_info[client_id].is_blocked = 1]
                 ELSE IF r.code = WRITE_STDIN_ERROR
                 THEN remove_process(w1, client_id, 128)
                 ELSE w1

\* One store of set_blocked_outerr: process_fd[fd].is_blocked = val. With
\* fd = -1 the store lands in the word before the array.
StoreIsBlocked(w, fd, val, target) ==
    IF fd \in PFds THEN [w EXCEPT !.process_fd[fd].is_blocked = val]
    ELSE IF target = "child_exited" THEN [w EXCEPT !.child_exited = (val # 0)]
    ELSE w

\* set_blocked_outerr
set_blocked_outerr(w, client_id, val, target) ==
    LET info == w.client_info[client_id]
    IN  StoreIsBlocked(StoreIsBlocked(w, info.stdout_fd, val, target),
                       info.stderr_fd, val, target)

\* The types handle_server_data has a case for.
AgentKnownTypes ==
    {MSG_XON, MSG_XOFF, MSG_SERVER_TO_AGENT_CONNECT_EXISTING,
     MSG_SERVER_TO_AGENT_EXEC_CMDLINE, MSG_SERVER_TO_AGENT_JUST_EXEC,
     MSG_SERVER_TO_AGENT_INPUT, MSG_SERVER_TO_AGENT_CLIENT_END}

\* handle_server_data, the switch: TRUE when the agent goes on, FALSE when it
\* exits. No field of the header but the type is looked at.
agent_accepts_header(s_hdr) == s_hdr.type \in AgentKnownTypes

\* The bytes handle_server_data reads from the transport after the header.
AgentPayloadRead(s_hdr) ==
    IF s_hdr.type \in {MSG_SERVER_TO_AGENT_CONNECT_EXISTING,
                       MSG_SERVER_TO_AGENT_EXEC_CMDLINE,
                       MSG_SERVER_TO_AGENT_JUST_EXEC,
                       MSG_SERVER_TO_AGENT_INPUT}
    THEN s_hdr.len ELSE 0

\* handle_server_data for the frame f at the head of the transport.
handle_server_data(w, f, n, stop, target) ==
    IF ~agent_accepts_header(f) THEN [w EXCEPT !.exited = TRUE]
    ELSE IF f.type = MSG_XON THEN set_blocked_outerr(w, f.client_id, 0, target)
    ELSE IF f.type = MSG_XOFF THEN set_blocked_outerr(w, f.client_id, 1, target)
    ELSE IF f.type = MSG_SERVER_TO_AGENT_CONNECT_EXISTING
    THEN handle_connect_existing(w, f.client_id, f.data[1].ident, f.tag)
    ELSE IF f.type = MSG_SERVER_TO_AGENT_EXEC_CMDLINE
    THEN handle_exec(w, f.client_id, f.tag)
    ELSE IF f.type = MSG_SERVER_TO_AGENT_JUST_EXEC
    THEN handle_just_exec(w, f.client_id, f.tag)
    ELSE IF f.type = MSG_SERVER_TO_AGENT_INPUT
    THEN handle_input(w, f.client_id, f.data, f.tag, n, stop)
    ELSE remove_process(w, f.client_id, -1)

\* handle_process_data without the stores of lines 398-400: at end of file
\* the entry of process_fd[] stays valid.
handle_process_data_keeps_entry(w, fd, ret) ==
    LET len == BufferSpace(a2d, A2DCap)
        pf == w.process_fd[fd]
        client_id == pf.client_id
        type == IF pf.type = FDTYPE_STDOUT THEN MSG_AGENT_TO_SERVER_STDOUT
                ELSE MSG_AGENT_TO_SERVER_STDERR
        src == w.afds[fd]
    IN  IF len <= ServerHeaderSize THEN w
        ELSE IF pf.type = FDTYPE_INVALID THEN [w EXCEPT !.exited = TRUE]
        ELSE IF ret < 0 THEN remove_process(w, client_id, 127)
        ELSE LET w1 == [w EXCEPT
                          !.out = Append(@, Frame(type, client_id, ret, ret,
                                                  [k \in 1..ret |-> src.n + k], src.sess)),
                          !.afds[fd].n = @ + ret]
             IN  IF ret # 0 THEN w1
                 ELSE LET w2 == [Close(w1, fd) EXCEPT
                                   !.client_info[client_id] =
                                       IF pf.type = FDTYPE_STDOUT
                                       THEN [@ EXCEPT !.stdout_fd = -1]
                                       ELSE [@ EXCEPT !.stderr_fd = -1]]
                      IN  possibly_remove_process(update_max_process_fd(w2), client_id)

\* handle_process_data(fd) with ret the result of its read.
handle_process_data(w, fd, ret) ==
    LET len == BufferSpace(a2d, A2DCap)
        pf == w.process_fd[fd]
        client_id == pf.client_id
        type == IF pf.type = FDTYPE_STDOUT THEN MSG_AGENT_TO_SERVER_STDOUT
                ELSE MSG_AGENT_TO_SERVER_STDERR
        src == w.afds[fd]
    IN  IF len <= ServerHeaderSize THEN w
        ELSE IF pf.type = FDTYPE_INVALID THEN [w EXCEPT !.exited = TRUE]
        ELSE IF ret < 0 THEN remove_process(w, client_id, 127)
        ELSE LET w1 == [w EXCEPT
                          !.out = Append(@, Frame(type, client_id, ret, ret,
                                                  [k \in 1..ret |-> src.n + k], src.sess)),
                          !.afds[fd].n = @ + ret]
             IN  IF ret # 0 THEN w1
                 ELSE LET w2 == [Close(w1, fd) EXCEPT
                                   !.client_info[client_id] =
                                       IF pf.type = FDTYPE_STDOUT
                                       THEN [@ EXCEPT !.stdout_fd = -1]
                                       ELSE [@ EXCEPT !.stderr_fd = -1],
                                   !.process_fd[fd] =
                                       [client_id |-> -1, type |-> FDTYPE_INVALID,
                                        is_blocked |-> 0]]
                      IN  possibly_remove_process(update_max_process_fd(w2), client_id)

\* find_info
find_info(w, pid) ==
    LET hits == {i \in ClientFds : w.client_info[i].pid = pid}
    IN  IF hits = {} THEN -1 ELSE SetMin(hits)

\* reap_children: waitpid hands over the zombies zs, lowest pid first.
RECURSIVE reap_children(_, _)
reap_children(w, zs) ==
    IF zs = {} THEN [w EXCEPT !.child_exited = FALSE]
    ELSE LET z == CHOOSE x \in zs : \A y \in zs : x.pid <= y.pid
             client_id == find_info(w, z.pid)
             w1 == IF client_id < 0 THEN w
                   ELSE possibly_remove_process(
                            [w EXCEPT !.client_info[client_id].is_exited = 1,
                                      !.client_info[client_id].exit_status = z.status],
                            client_id)
         IN  reap_children(w1, zs \ {z})

\* flush_client_data_agent with ret the result of the write in
\* flush_client_data.
flush_client_data_agent(w, client_id, ret) ==
    LET info == w.client_info[client_id]
        r == flush_client_data(info.buffer, <<ret>>)
        w1 == [ToStdin(w, info.stdin_fd, r.out, info.sess) EXCEPT
                 !.client_info[client_id].buffer = r.buffer,
                 !.out = IF r.xon
                         THEN Append(@, Frame(MSG_XON, client_id, 0, 0, <<>>, info.sess))
                         ELSE @]
    IN  IF r.code = WRITE_STDIN_OK
        THEN LET w2 == [w1 EXCEPT !.client_info[client_id].is_blocked = 0]
             IN  IF info.is_close_after_flush_needed # 0
                 THEN [Close(w2, info.stdin_fd) EXCEPT
                         !.client_info[client_id].stdin_fd = -1,
                         !.client_info[client_id].is_close_after_flush_needed = 0]
                 ELSE w2
        ELSE IF r.code = WRITE_STDIN_ERROR
        THEN remove_process(w1, client_id, 128)
        ELSE w1

(***************************************************************************)
(* The environment and the histories                                       *)
(***************************************************************************)
EnvInit ==
    /\ next_sess = 1
    /\ kids = [d_run |-> 0, d_zom |-> 0, a_run |-> {}, a_zom |-> {}]
    /\ tool = [left |-> MaxTools, conn |-> FALSE, fds |-> <<>>, fifo |-> "none",
               policy |-> "none"]
    /\ budget = MaxEvents
    /\ hist = [exit_sent |-> {}, late |-> FALSE,
               got |-> {}, crossed |-> FALSE, killed |-> FALSE,
               stdin |-> [s \in Sessions |-> [n |-> 0, bad |-> FALSE]],
               stdin_crossed |-> FALSE, just |-> {}]

\* The frame types the agent sends for a client id.
AgentIdTypes ==
    {MSG_AGENT_TO_SERVER_STDOUT, MSG_AGENT_TO_SERVER_STDERR, MSG_XON, MSG_XOFF,
     MSG_AGENT_TO_SERVER_EXIT_CODE}

\* History of the agent's frames: the ids for which EXIT_CODE was written in
\* the current session of an id the daemon gives out (below MAX_FDS), and
\* whether a frame for such an id followed.
RECURSIVE NoteFrames(_, _)
NoteFrames(h, frames) ==
    IF frames = <<>> THEN h
    ELSE LET f == Head(frames)
             h1 == [h EXCEPT
                      !.late = @ \/ (f.type \in AgentIdTypes /\ f.client_id \in h.exit_sent),
                      !.exit_sent = IF /\ f.type = MSG_AGENT_TO_SERVER_EXIT_CODE
                                       /\ f.client_id \in 0..(MAX_FDS - 1)
                                    THEN @ \cup {f.client_id} ELSE @]
         IN  NoteFrames(h1, Tail(frames))

(***************************************************************************)
(* The daemon's event loop (main of qrexec_daemon.c)                       *)
(***************************************************************************)
\* One of the two processes has exited: the transport is closed, and the
\* other one exits as it finds that out in its wait.
Halted == daemon.exited \/ agent.exited

\* The daemon is inside a handler, in write_all_vchan_ext or in read_all.
DBlocked == WriterBlocked(d2a, d_pend, D2ACap) \/ daemon.blk # -1

\* fill_fdsets_for_select and the full-transport test of lines 653-655: the
\* clients in the read set and in the write set, and whether the listening
\* socket is in the read set.
DOpen == BufferSpace(d2a, D2ACap) > ServerHeaderSize
DLive ==
    {i \in ClientFds : i <= daemon.max_client_fd
                       /\ daemon.clients[i].state # CLIENT_INVALID}
DReadSet ==
    IF ~DOpen THEN {} ELSE {i \in DLive : "DONT_READ" \notin daemon.clients[i].state}
DWriteSet == {i \in DLive : "OUTQ_FULL" \in daemon.clients[i].state}

\* The read set main hands to pselect: what fill_fdsets_for_select put in it,
\* the listening socket included, unless line 655 has emptied it, and the
\* descriptor of the transport, which wait_for_vchan_or_argfd_once adds.
qrexec_daemon_unix_socket_fd == MAX_FDS + 1
vfd == MAX_FDS + 2
DSelectReadSet ==
    (IF ~DOpen THEN {} ELSE DReadSet \cup {qrexec_daemon_unix_socket_fd}) \cup {vfd}

\* select fails on a closed descriptor.
DBadFd == \E i \in DReadSet \cup DWriteSet : socks[i].sess = 0

\* main has passed lines 652-661 with no child to reap, and its wait returns
\* with one descriptor ready.
DWakes ==
    /\ ~Halted
    /\ ~DBlocked
    /\ daemon.pc = "top"
    /\ ~daemon.child_exited
    /\ ~DBadFd

\* Where main stands after a handler of lines 663-667, the agent's messages
\* being ring: in the loop of line 666 with a message to handle, or through
\* with the iteration.
DLoop(ring) == IF ReadReady(ring) THEN "loop" ELSE "top"

\* The end of a daemon handler that worked on w: its frames go to the
\* transport, its globals are stored.
DaemonCommit(w, pc, blk) ==
    /\ LET r == WriteAll(d2a, w.out, D2ACap, 0)
       IN  d2a' = r.ring /\ d_pend' = r.pend
    /\ daemon' = [clients |-> w.clients, max_client_fd |-> w.max_client_fd,
                  children_count |-> w.children_count,
                  child_exited |-> daemon.child_exited,
                  pc |-> pc, blk |-> blk, exited |-> w.exited]
    /\ socks' = w.socks
    /\ hist' = w.hist
    /\ kids' = [kids EXCEPT !.d_run = @ + w.forked]

\* main, lines 652-661 when a child has exited or a descriptor of the sets
\* is closed: reap_children, and the wait, which ends the daemon if select
\* fails.
DaemonSelect ==
    /\ ~Halted
    /\ ~DBlocked
    /\ daemon.pc = "top"
    /\ daemon.child_exited \/ DBadFd
    /\ LET d1 == IF daemon.child_exited
                 THEN daemon_reap_children(daemon, kids.d_zom) ELSE daemon
       IN  /\ daemon' = [d1 EXCEPT !.exited = DBadFd]
           /\ kids' = IF daemon.child_exited THEN [kids EXCEPT !.d_zom = 0] ELSE kids
    /\ UNCHANGED <<socks, d2a, d_pend, agent, afds, a2d, a_pend, next_sess, tool,
                   budget, hist, ringVars, hdrVars, auxVars>>

\* main, lines 663-664: handle_new_client, a client having connected.
DaemonAccept ==
    /\ DWakes
    /\ qrexec_daemon_unix_socket_fd \in DSelectReadSet
    /\ next_sess <= MaxSessions
    /\ Affordable(IF next_sess > 1 THEN SessionCost ELSE 0)
    /\ Spend(IF next_sess > 1 THEN SessionCost ELSE 0)
    /\ \E fd \in do_accept(socks) :
          DaemonCommit(handle_new_client(DaemonWorld(0), fd, next_sess), DLoop(a2d), -1)
    /\ next_sess' = next_sess + 1
    /\ UNCHANGED <<agent, afds, a2d, a_pend, tool, ringVars, hdrVars, auxVars>>

\* main, lines 666-667: one handle_message_from_agent. The agent, if it was
\* blocked writing, gets on as its frame leaves the transport.
DaemonAgentMsg ==
    /\ DWakes \/ (~Halted /\ ~DBlocked /\ daemon.pc = "loop")
    /\ ReadReady(a2d)
    /\ LET f == Head(a2d)
           known == f.client_id \in ClientFds
           cl == IF known THEN daemon.clients[f.client_id] ELSE NoClient
           sk == IF known THEN socks[f.client_id] ELSE ClosedSock
           live == /\ f.type \in {MSG_AGENT_TO_SERVER_STDOUT, MSG_AGENT_TO_SERVER_STDERR,
                                  MSG_AGENT_TO_SERVER_EXIT_CODE}
                   /\ cl.state # CLIENT_INVALID
           writes == live /\ "EXITED" \notin cl.state /\ cl.buffer = <<>>
           forced == sk.sess = 0
           runs == IF ~writes THEN {[n |-> 0, stop |-> "DONE"]}
                   ELSE IF forced THEN {[n |-> 0, stop |-> "ERROR"]}
                   ELSE {r \in WriteRuns(1 + Len(f.data)) : Affordable(RunCost(r))}
       IN  \E run \in runs :
             LET w == handle_message_from_agent(DaemonWorld(sk.sess), f, run.n, run.stop)
                 w1 == [w EXCEPT !.hist.killed =
                           @ \/ (/\ live
                                 /\ f.type = MSG_AGENT_TO_SERVER_EXIT_CODE
                                 /\ sk.sess # 0
                                 /\ f.tag # sk.sess)]
             IN  /\ DaemonCommit(w1, DLoop(Tail(a2d)), -1)
                 /\ Spend(IF writes /\ ~forced THEN RunCost(run) ELSE 0)
                 /\ tool' = IF w.policy THEN [tool EXCEPT !.policy = "ready"] ELSE tool
    /\ LET r == WriteAll(Tail(a2d), a_pend, A2DCap, 1)
       IN  a2d' = r.ring /\ a_pend' = r.pend
    /\ UNCHANGED <<agent, afds, next_sess, ringVars, hdrVars, auxVars>>

\* What a client can have sent when the daemon reads its command: nothing
\* before it closed, a header of a type the daemon knows or not, and the
\* body or a part of it.
CmdlineInputs(fd) ==
    IF socks[fd].stage # "hdr"
    THEN {[hdr |-> ReadEof, body |-> NoBody], [hdr |-> 0, body |-> NoBody]}
    ELSE {[hdr |-> ReadEof, body |-> NoBody], [hdr |-> 0, body |-> NoBody]}
         \cup {[hdr |-> t, body |-> b] :
                 t \in {MSG_CLIENT_TO_SERVER_EXEC_CMDLINE, MSG_CLIENT_TO_SERVER_JUST_EXEC},
                 b \in {NoBody, Cmdline("u"), Cmdline("DEFAULT")}}
         \cup (IF tool.policy = "ready"
               THEN {[hdr |-> MSG_CLIENT_TO_SERVER_CONNECT_EXISTING,
                      body |-> Ident(tool.fds)]}
               ELSE {})

\* handle_message_from_client(fd) with the client in state CLIENT_CMDLINE.
DaemonCmdline(fd) ==
    \E in \in CmdlineInputs(fd) :
        /\ DaemonCommit(handle_cmdline_message_from_client(
                            DaemonWorld(socks[fd].sess), fd, in.hdr, in.body),
                        "top", -1)
        /\ tool' = IF in.hdr = MSG_CLIENT_TO_SERVER_CONNECT_EXISTING
                   THEN [tool EXCEPT !.policy = "used"] ELSE tool

\* The results of read(fd, buf, len - sizeof s_hdr) on a client socket.
ClientReadRets(fd) ==
    LET sk == socks[fd]
        room == BufferSpace(d2a, D2ACap) - ServerHeaderSize
    IN  IF room <= 0 THEN {0}
        ELSE IF sk.sess = 0 THEN {-1}
        ELSE IF sk.eof THEN {0}
        ELSE IF sk.stage = "data" THEN {-1} \cup 0..Min(room, MaxIn - sk.nread)
        ELSE {-1, 0, 1}

\* main, lines 669-672: one handle_message_from_client, for a client that
\* select found readable.
DaemonClientRead ==
    /\ DWakes
    /\ ~ReadReady(a2d)
    /\ \E fd \in DReadSet :
         IF daemon.clients[fd].state = CLIENT_CMDLINE
         THEN DaemonCmdline(fd) /\ budget' = budget
         ELSE /\ \E ret \in ClientReadRets(fd) :
                   LET c == IF socks[fd].sess = 0 THEN 0 ELSE ReadCost(ret)
                   IN  /\ Affordable(c)
                       /\ Spend(c)
                       /\ DaemonCommit(handle_data_from_client(
                                           DaemonWorld(socks[fd].sess), fd, ret),
                                       "top", -1)
              /\ tool' = tool
    /\ UNCHANGED <<agent, afds, a2d, a_pend, next_sess, ringVars, hdrVars, auxVars>>

\* handle_cmdline_message_from_client entered for a client that has sent
\* only a part of its command: read_all waits, the socket still blocking.
DaemonCmdlineStall ==
    /\ DWakes
    /\ ~ReadReady(a2d)
    /\ \E fd \in DReadSet :
         /\ daemon.clients[fd].state = CLIENT_CMDLINE
         /\ daemon' = [daemon EXCEPT !.blk = fd]
    /\ UNCHANGED <<socks, d2a, d_pend, agent, afds, a2d, a_pend, next_sess, kids, tool,
                   budget, hist, ringVars, hdrVars, auxVars>>

\* read_all returns: the rest of the command came, or the client closed.
DaemonCmdlineResume ==
    /\ ~Halted
    /\ daemon.blk # -1
    /\ DaemonCmdline(daemon.blk)
    /\ UNCHANGED <<agent, afds, a2d, a_pend, next_sess, budget, ringVars, hdrVars, auxVars>>

\* main, lines 674-677: one write_buffered_data_to_client, for a client
\* that select found writable.
DaemonClientWrite ==
    /\ DWakes
    /\ ~ReadReady(a2d)
    /\ \E fd \in DWriteSet :
         LET len == Len(daemon.clients[fd].buffer)
             forced == socks[fd].sess = 0
             rets == IF forced THEN {WriteFailed}
                     ELSE {r \in WriteRets(len) : Affordable(WriteCost(r, len))}
         IN  \E ret \in rets :
               /\ Spend(IF forced THEN 0 ELSE WriteCost(ret, len))
               /\ DaemonCommit(write_buffered_data_to_client(
                                   DaemonWorld(socks[fd].sess), fd, ret),
                               "top", -1)
    /\ UNCHANGED <<agent, afds, a2d, a_pend, next_sess, tool, ringVars, hdrVars, auxVars>>

\* A child of the daemon exits: sigchld_handler.
DaemonChildExits ==
    /\ ~Halted
    /\ kids.d_run > 0
    /\ kids' = [kids EXCEPT !.d_run = @ - 1, !.d_zom = @ + 1]
    /\ daemon' = [daemon EXCEPT !.child_exited = TRUE]
    /\ UNCHANGED <<socks, d2a, d_pend, agent, afds, a2d, a_pend, next_sess, tool,
                   budget, hist, ringVars, hdrVars, auxVars>>

(***************************************************************************)
(* The agent's event loop (main of qrexec_agent.c)                         *)
(***************************************************************************)
\* The agent is inside a handler, in write_all_vchan_ext.
ABlocked == WriterBlocked(a2d, a_pend, A2DCap)

\* fill_fds_for_select and the full-transport test of lines 561-563: the
\* descriptors in the read set and in the write set, and whether the
\* trigger fifo and the fdpass socket are in the read set.
AOpen == BufferSpace(a2d, A2DCap) > ServerHeaderSize
AReadSet ==
    IF ~AOpen THEN {}
    ELSE {i \in PFds : /\ i <= agent.max_process_fd
                       /\ agent.process_fd[i].type # FDTYPE_INVALID
                       /\ agent.process_fd[i].is_blocked = 0}
AWriteIds ==
    {i \in ClientFds : agent.client_info[i].pid # 0
                       /\ agent.client_info[i].is_blocked # 0}
AWriteSet == {agent.client_info[i].stdin_fd : i \in AWriteIds}

\* select fails on a closed descriptor.
ABadFd == \E fd \in AReadSet \cup AWriteSet : fd \notin AFds \/ afds[fd].kind = "free"

\* main has passed lines 557-566 with no child to reap, and its wait returns
\* with one descriptor ready.
AWakes ==
    /\ ~Halted
    /\ ~ABlocked
    /\ agent.pc # "loop"
    /\ ~agent.child_exited
    /\ ~ABadFd

\* Where main stands after a handler of lines 568-572, the daemon's messages
\* being ring: in the loop of line 571 with a message to handle, or at the
\* end of the iteration.
ALoop(ring) == IF ReadReady(ring) THEN "loop" ELSE "end"

\* The end of an agent handler that worked on w.
AgentCommit(w, pc, zom) ==
    /\ LET r == WriteAll(a2d, w.out, A2DCap, 0)
       IN  a2d' = r.ring /\ a_pend' = r.pend
    /\ agent' = [client_info |-> w.client_info, process_fd |-> w.process_fd,
                 max_process_fd |-> w.max_process_fd, child_exited |-> w.child_exited,
                 pc |-> pc, exited |-> w.exited]
    /\ afds' = w.afds
    /\ hist' = NoteFrames([w.hist EXCEPT !.exit_sent = @ \ w.created], w.out)
    /\ kids' = [kids EXCEPT !.a_run = @ \cup w.started, !.a_zom = zom]

\* main, lines 557-566 when a child has exited or a descriptor of the sets
\* is closed: reap_children, and the wait, which ends the agent if select
\* fails.
AgentSelect ==
    /\ ~Halted
    /\ ~ABlocked
    /\ agent.pc # "loop"
    /\ agent.child_exited \/ ABadFd
    /\ LET reap == agent.child_exited
           w == IF reap THEN reap_children(AgentWorld, kids.a_zom) ELSE AgentWorld
           put == WriteAll(a2d, w.out, A2DCap, 0)
           open == put.pend = <<>> /\ BufferSpace(put.ring, A2DCap) > ServerHeaderSize
           R == IF ~open THEN {}
                ELSE {i \in PFds : /\ i <= w.max_process_fd
                                   /\ w.process_fd[i].type # FDTYPE_INVALID
                                   /\ w.process_fd[i].is_blocked = 0}
           W == {w.client_info[i].stdin_fd :
                    i \in {j \in ClientFds : w.client_info[j].pid # 0
                                             /\ w.client_info[j].is_blocked # 0}}
           bad == /\ put.pend = <<>>
                  /\ \E fd \in R \cup W : fd \notin AFds \/ w.afds[fd].kind = "free"
       IN  AgentCommit([w EXCEPT !.exited = bad], "end",
                       IF reap THEN {} ELSE kids.a_zom)
    /\ UNCHANGED <<daemon, socks, d2a, d_pend, next_sess, tool, budget, ringVars, hdrVars, auxVars>>

\* main, lines 568-569: handle_new_passfd. The local program learns the
\* descriptor; after its third connection it writes its request to the
\* trigger fifo and closes it.
AgentPassfd ==
    /\ AWakes
    /\ AOpen
    /\ tool.conn
    /\ LET free == FreeFds(AgentWorld)
       IN  IF free = {}
           THEN /\ AgentCommit([AgentWorld EXCEPT !.exited = TRUE], ALoop(d2a), kids.a_zom)
                /\ tool' = tool
           ELSE LET fd == SetMin(free)
                    fds == Append(tool.fds, fd)
                IN  /\ AgentCommit([AgentWorld EXCEPT
                                      !.afds[fd] = [kind |-> "pass", sess |-> 0, n |-> 0]],
                                   ALoop(d2a), kids.a_zom)
                    /\ tool' = [tool EXCEPT !.fds = fds,
                                            !.conn = Len(fds) < 3,
                                            !.fifo = IF Len(fds) = 3 THEN "params" ELSE @]
    /\ UNCHANGED <<daemon, socks, d2a, d_pend, next_sess, budget, ringVars, hdrVars, auxVars>>

\* handle_input for frame f gets to the write loop of write_stdin.
StdinWrites(f) ==
    LET info == agent.client_info[f.client_id]
    IN  /\ f.type = MSG_SERVER_TO_AGENT_INPUT
        /\ info.pid # 0
        /\ Len(f.data) # 0
        /\ info.buffer = <<>>

\* The descriptor behind stdin_fd of f's client is closed: write fails.
StdinClosed(f) ==
    LET info == agent.client_info[f.client_id]
    IN  info.stdin_fd \notin AFds \/ afds[info.stdin_fd].kind = "free"

\* The ways the write of an INPUT payload to the stdin of client_id can go.
StdinRuns(f) ==
    IF ~StdinWrites(f) THEN {[n |-> 0, stop |-> "DONE"]}
    ELSE IF StdinClosed(f) THEN {[n |-> 0, stop |-> "ERROR"]}
    ELSE {r \in WriteRuns(Len(f.data)) : Affordable(RunCost(r))}

\* Where the stores of set_blocked_outerr for frame f can land.
StoreTargets(f) ==
    LET info == agent.client_info[f.client_id]
    IN  IF f.type \in {MSG_XON, MSG_XOFF} /\ (info.stdout_fd = -1 \/ info.stderr_fd = -1)
        THEN OobTargets ELSE {"pad"}

\* main, lines 571-572: one handle_server_data. The daemon, if it was blocked
\* writing, gets on as its frame leaves the transport.
AgentServerData ==
    /\ AWakes \/ (~Halted /\ ~ABlocked /\ agent.pc = "loop")
    /\ ReadReady(d2a)
    /\ LET f == Head(d2a)
       IN  \E run \in StdinRuns(f), target \in StoreTargets(f) :
             /\ AgentCommit(handle_server_data(AgentWorld, f, run.n, run.stop, target),
                            ALoop(Tail(d2a)), kids.a_zom)
             /\ Spend(IF StdinWrites(f) /\ ~StdinClosed(f) THEN RunCost(run) ELSE 0)
    /\ LET r == WriteAll(Tail(d2a), d_pend, D2ACap, 1)
       IN  d2a' = r.ring /\ d_pend' = r.pend
    /\ UNCHANGED <<daemon, socks, next_sess, tool, ringVars, hdrVars, auxVars>>

\* main, lines 574-575: handle_trigger_io. read gives the whole request, or 0
\* once the writer has closed the fifo, and then the fifo is opened again.
AgentTrigger ==
    /\ AWakes
    /\ ~ReadReady(d2a)
    /\ AOpen
    /\ tool.fifo \in {"params", "hup"}
    /\ LET w == IF tool.fifo = "params"
                THEN [AgentWorld EXCEPT
                        !.out = <<Frame(MSG_AGENT_TO_SERVER_TRIGGER_CONNECT_EXISTING, 0, 0,
                                        TriggerParamsSize, <<Ident(tool.fds)>>, 0)>>]
                ELSE AgentWorld
       IN  AgentCommit(w, "end", kids.a_zom)
    /\ tool' = [tool EXCEPT !.fifo = IF @ = "params" THEN "hup" ELSE "drained"]
    /\ UNCHANGED <<daemon, socks, d2a, d_pend, next_sess, budget, ringVars, hdrVars, auxVars>>

\* The results of read(fd, buf, len - sizeof s_hdr) on a child's pipe.
ProcessReadRets(fd) ==
    LET room == BufferSpace(a2d, A2DCap) - ServerHeaderSize
    IN  IF room <= 0 THEN {0}
        ELSE {-1} \cup 0..Min(room, MaxOut - afds[fd].n)

\* main, line 577: one handle_process_data of handle_process_data_all, for a
\* descriptor that select found readable.
AgentProcessData ==
    /\ AWakes
    /\ ~ReadReady(d2a)
    /\ \E fd \in AReadSet :
         \E ret \in ProcessReadRets(fd) :
             /\ Affordable(ReadCost(ret))
             /\ Spend(ReadCost(ret))
             /\ AgentCommit(handle_process_data(AgentWorld, fd, ret), "end", kids.a_zom)
    /\ UNCHANGED <<daemon, socks, d2a, d_pend, next_sess, tool, ringVars, hdrVars, auxVars>>

\* main, lines 578-582: one flush_client_data_agent, for a stdin that select
\* found writable.
AgentFlush ==
    /\ AWakes
    /\ ~ReadReady(d2a)
    /\ \E id \in AWriteIds :
         LET len == Len(agent.client_info[id].buffer)
         IN  \E ret \in WriteRets(len) :
               /\ Affordable(WriteCost(ret, len))
               /\ Spend(WriteCost(ret, len))
               /\ AgentCommit(flush_client_data_agent(AgentWorld, id, ret),
                              "end", kids.a_zom)
    /\ UNCHANGED <<daemon, socks, d2a, d_pend, next_sess, tool, ringVars, hdrVars, auxVars>>

\* main, line 578: the loop runs to i = MAX_FDS and reads client_info[MAX_FDS],
\* past the array. When the words found there pass the test of lines 579-581,
\* flush_client_data_agent(MAX_FDS) works on them: it sends XON or, through
\* remove_process, EXIT_CODE 128 with client_id MAX_FDS, or the agent dies
\* in buffer_remove.
AgentFlushBeyond ==
    /\ ~Halted
    /\ ~ABlocked
    /\ agent.pc = "end"
    /\ Affordable(1)
    /\ Spend(1)
    /\ \E outcome \in {"xon", "exit_code", "crash"} :
         LET w == IF outcome = "xon"
                  THEN [AgentWorld EXCEPT !.out = <<Frame(MSG_XON, MAX_FDS, 0, 0, <<>>, 0)>>]
                  ELSE IF outcome = "exit_code"
                  THEN [AgentWorld EXCEPT
                          !.out = <<Frame(MSG_AGENT_TO_SERVER_EXIT_CODE, MAX_FDS, StatusSize,
                                          StatusSize, <<128>>, 0)>>]
                  ELSE [AgentWorld EXCEPT !.exited = TRUE]
         IN  AgentCommit(w, "top", kids.a_zom)
    /\ UNCHANGED <<daemon, socks, d2a, d_pend, next_sess, tool, ringVars, hdrVars, auxVars>>

\* A child of the agent exits with some status: sigchld_handler.
AgentChildExits ==
    /\ ~Halted
    /\ \E pid \in kids.a_run, status \in ExitStatuses :
         kids' = [kids EXCEPT !.a_run = @ \ {pid},
                              !.a_zom = @ \cup {[pid |-> pid, status |-> status]}]
    /\ agent' = [agent EXCEPT !.child_exited = TRUE]
    /\ UNCHANGED <<daemon, socks, d2a, d_pend, afds, a2d, a_pend, next_sess, tool,
                   budget, hist, ringVars, hdrVars, auxVars>>

\* A local program starts qrexec_client_vm, which connects to the agent's
\* fdpass socket.
ToolStarts ==
    /\ ~Halted
    /\ tool.left > 0
    /\ Affordable(ToolCost)
    /\ ~tool.conn
    /\ tool.fifo = "none"
    /\ tool' = [tool EXCEPT !.left = @ - 1, !.conn = TRUE]
    /\ Spend(ToolCost)
    /\ UNCHANGED <<daemon, socks, d2a, d_pend, agent, afds, a2d, a_pend, next_sess, kids,
                   hist, ringVars, hdrVars, auxVars>>

SysInit == DaemonInit /\ AgentInit /\ EnvInit

Next ==
    \/ DaemonSelect
    \/ DaemonAccept
    \/ DaemonAgentMsg
    \/ DaemonClientRead
    \/ DaemonCmdlineStall
    \/ DaemonCmdlineResume
    \/ DaemonClientWrite
    \/ DaemonChildExits
    \/ AgentSelect
    \/ AgentPassfd
    \/ AgentServerData
    \/ AgentTrigger
    \/ AgentProcessData
    \/ AgentFlush
    \/ AgentFlushBeyond
    \/ AgentChildExits
    \/ ToolStarts

(***************************************************************************)
(* One frame header handed to a receiver                                   *)
(***************************************************************************)
\* The values of the header fields tried: every type of the protocol and the
\* numbers next to them, ids on both sides of MAX_FDS, lengths on both sides
\* of MAX_DATA_CHUNK and a length with the high bits set (the fields are
\* unsigned, so that it compares as a large number).
HdrTypes == (MSG_CLIENT_TO_SERVER_EXEC_CMDLINE - 1)..(MSG_SERVER_TO_CLIENT_EXIT_CODE + 1)
HdrIds == {0, MAX_FDS - 1, MAX_FDS}
HugeLen == 2147483647
HdrLens == {0, StatusSize, MAX_DATA_CHUNK - 1, MAX_DATA_CHUNK, MAX_DATA_CHUNK + 1, HugeLen}

HdrInit ==
    /\ hdr_who = "none"
    /\ hdr_in = [type |-> 0, client_id |-> 0, len |-> 0]
    /\ hdr_res = "none"

\* handle_message_from_agent reads a header and sanitizes it.
HdrToDaemon ==
    /\ \E t \in HdrTypes, id \in HdrIds, len \in HdrLens :
         LET h == [type |-> t, client_id |-> id, len |-> len]
         IN  /\ hdr_in' = h
             /\ hdr_res' = IF sanitize_message_from_agent(h) THEN "accepted" ELSE "exit"
    /\ hdr_who' = "daemon"
    /\ UNCHANGED <<ringVars, sysVars, auxVars>>

\* The handlers of the agent that take the payload into `char buf[len]`,
\* len being the header's length converted to int.
AgentBodyTypes ==
    {MSG_SERVER_TO_AGENT_EXEC_CMDLINE, MSG_SERVER_TO_AGENT_JUST_EXEC,
     MSG_SERVER_TO_AGENT_CONNECT_EXISTING, MSG_SERVER_TO_AGENT_INPUT}

\* What handle_server_data can do with header h. A length with the high bits
\* set is a negative int and the size of the array is then undefined: the
\* agent dies there or goes on.
AgentHeaderOutcomes(h) ==
    IF ~agent_accepts_header(h) THEN {"exit"}
    ELSE IF h.type \in AgentBodyTypes /\ h.len = HugeLen THEN {"exit", "accepted"}
    ELSE {"accepted"}

\* handle_server_data reads a header and switches on its type.
HdrToAgent ==
    /\ \E t \in HdrTypes, id \in HdrIds, len \in HdrLens :
         LET h == [type |-> t, client_id |-> id, len |-> len]
         IN  /\ hdr_in' = h
             /\ hdr_res' \in AgentHeaderOutcomes(h)
    /\ hdr_who' = "agent"
    /\ UNCHANGED <<ringVars, sysVars, auxVars>>

NextHdr ==
    \/ HdrToDaemon
    \/ HdrToAgent




(***************************************************************************)
(* The trigger record and its sanitization (qrexec_daemon.c, 440-501)      *)
(***************************************************************************)
\* sizeof of the three fields of struct trigger_connect_params
ExecIndexSize == 64
TargetVmnameSize == 32
IdentSize == 32

\* The records tried: in each field a few bytes, then one byte repeated to
\* the end of the field (0, or another byte so that the field holds no NUL).
MaxNameLen == 2
MaxOtherLen == 1
NameBytes == {0, 32, 36, 45, 46, 47, 48, 57, 58, 59, 64, 65, 90, 91, 95, 96, 97, 122, 123, 200}
OtherBytes == {59, 97}
FillBytes == {0, 59}

FieldOf(prefix, fill, size) ==
    [i \in 1..size |-> IF i <= Len(prefix) THEN prefix[i] ELSE fill]

\* struct trigger_connect_params: the three fields, in their order.
Params(service, target, id) == <<service, target, id>>
exec_index(p) == p[1]
target_vmname(p) == p[2]
process_fds_ident(p) == p[3]

NoParams == Params(<<>>, <<>>, <<>>)

\* ENSURE_NULL_TERMINATED(x): x[sizeof(x)-1] = 0
ENSURE_NULL_TERMINATED(x) == [x EXCEPT ![Len(x)] = 0]

\* The tests of lines 444-451 on one unsigned char, with ' ' left out.
NameByteKeptNoSpace(c) ==
    \/ c >= 97 /\ c <= 122
    \/ c >= 65 /\ c <= 90
    \/ c >= 48 /\ c <= 57
    \/ c = 36 \/ c = 95 \/ c = 45 \/ c = 46

\* The tests of lines 444-451 on one unsigned char: the byte is left alone.
NameByteKept(c) ==
    \/ c >= 97 /\ c <= 122
    \/ c >= 65 /\ c <= 90
    \/ c >= 48 /\ c <= 57
    \/ c = 36 \/ c = 95 \/ c = 45 \/ c = 46 \/ c = 32

\* sanitize_name from position i on: up to the first NUL. (In a field that
\* holds no NUL the loop would leave the field; ENSURE_NULL_TERMINATED comes
\* first.)
RECURSIVE SanitizeFrom(_, _)
SanitizeFrom(s, i) ==
    IF i > Len(s) THEN s
    ELSE IF s[i] = 0 THEN s
    ELSE SanitizeFrom([s EXCEPT ![i] = IF NameByteKept(@) THEN @ ELSE 95], i + 1)

sanitize_name(untrusted_s) == SanitizeFrom(untrusted_s, 1)

\* The field left as received, without the ENSURE_NULL_TERMINATED of lines
\* 473-475.
NotTerminated(x) == x

\* Lines 473-475 on one field.
Terminated(x) == ENSURE_NULL_TERMINATED(x)

\* handle_execute_predefined_command, lines 472-480.
sanitize_params(untrusted_params) ==
    Params(sanitize_name(Terminated(exec_index(untrusted_params))),
           sanitize_name(Terminated(target_vmname(untrusted_params))),
           sanitize_name(Terminated(process_fds_ident(untrusted_params))))

\* The C string in a char array: the bytes before the first NUL.
RECURSIVE StrLen(_, _)
StrLen(s, i) == IF i > Len(s) \/ s[i] = 0 THEN i - 1 ELSE StrLen(s, i + 1)

CStr(s) == SubSeq(s, 1, StrLen(s, 1))

\* execl of lines 496-498: argv of the policy child.
policy_argv(params) ==
    <<"qrexec_policy", "remote_domain_name", CStr(target_vmname(params)),
      CStr(exec_index(params)), CStr(process_fds_ident(params))>>

TrigInit ==
    /\ trig_in = NoParams
    /\ trig_out = <<NoParams, <<>>>>

\* The handler keeps nothing from one record to the next: one record is
\* followed.
TrigHandle(untrusted_params) ==
    /\ trig_in = NoParams
    /\ trig_in' = untrusted_params
    /\ LET params == sanitize_params(untrusted_params)
       IN  trig_out' = <<params, policy_argv(params)>>
    /\ UNCHANGED <<ringVars, sysVars, hdrVars, closeVars, lateVars, chld, mem, iso_agent, iso_daemon, iso_ev>>

\* handle_execute_predefined_command on any record of the agent.
TrigAny ==
    \E p1 \in SeqsUpTo(NameBytes, MaxNameLen),
       p2 \in SeqsUpTo(OtherBytes, MaxOtherLen),
       p3 \in SeqsUpTo(OtherBytes, MaxOtherLen),
       fill \in FillBytes :
        TrigHandle(Params(FieldOf(p1, fill, ExecIndexSize),
                          FieldOf(p2, fill, TargetVmnameSize),
                          FieldOf(p3, fill, IdentSize)))

\* The bytes of "foo;rm -rf /", "vm1" and "0 1 2".
ScenarioService == <<102, 111, 111, 59, 114, 109, 32, 45, 114, 102, 32, 47>>
ScenarioTarget == <<118, 109, 49>>
ScenarioIdent == <<48, 32, 49, 32, 50>>

\* handle_execute_predefined_command on the record of the scenario.
TrigScenario ==
    TrigHandle(Params(FieldOf(ScenarioService, 0, ExecIndexSize),
                      FieldOf(ScenarioTarget, 0, TargetVmnameSize),
                      FieldOf(ScenarioIdent, 0, IdentSize)))

NextTrigger ==
    \/ TrigAny
    \/ TrigScenario

\* ---------------------------------------------------------------------
\* SpecChildren: the daemon's count of its forked children.
\* ---------------------------------------------------------------------

\* The most children (running or zombie) the system lets the daemon have.
MaxLive == 14

\* chld is <<children_count, running, zombies, child_exited>>: the counter
\* of qrexec_daemon.c:210, the forked children still running, those that
\* have exited and are not waited for, and the flag of sigchld_handler.
Chld(count, running, zombies, flag) == <<count, running, zombies, flag>>
chld_count == chld[1]
chld_running == chld[2]
chld_zombies == chld[3]
chld_exited == chld[4]

ChldInit == chld = Chld(0, 0, 0, FALSE)

\* check_children_count_and_wait_if_too_many: the test of line 431.
TooManyChildren(count) == count > MAX_CHILDREN

\* wait_for_child: the blocking waitpid takes a zombie; with none, it
\* sleeps until a running child exits (SIGCHLD sets child_exited) and takes
\* that one.
wait_for_child(c) ==
    IF c[3] > 0 THEN Chld(c[1] - 1, c[2], c[3] - 1, c[4])
    ELSE Chld(c[1] - 1, c[2] - 1, c[3], TRUE)

check_children_count_and_wait_if_too_many(c) ==
    IF TooManyChildren(c[1]) THEN wait_for_child(c) ELSE c

\* handle_execute_predefined_command for one trigger of the agent: lines
\* 468 and 481-489.
ChildTrigger ==
    /\ chld_running + chld_zombies < MaxLive
    /\ LET c == check_children_count_and_wait_if_too_many(chld)
           w == handle_execute_predefined_command(
                    [children_count |-> chld_count, forked |-> 0, policy |-> FALSE])
       IN  chld' = Chld(w.children_count, c[2] + 1, c[3], c[4])
    /\ UNCHANGED <<ringVars, sysVars, hdrVars, closeVars, lateVars, trig_in, trig_out, mem, iso_agent, iso_daemon, iso_ev>>

\* terminate_client_and_flush_data of a client with buffered data: line
\* 217-218, fork_and_flush_stdin returns 1.
ChildFlush ==
    /\ chld_running + chld_zombies < MaxLive
    /\ chld' = Chld(chld_count + 1, chld_running + 1, chld_zombies, chld_exited)
    /\ UNCHANGED <<ringVars, sysVars, hdrVars, closeVars, lateVars, trig_in, trig_out, mem, iso_agent, iso_daemon, iso_ev>>

\* A child exits: SIGCHLD, sigchld_handler sets the flag.
ChildExit ==
    /\ chld_running > 0
    /\ chld' = Chld(chld_count, chld_running - 1, chld_zombies + 1, TRUE)
    /\ UNCHANGED <<ringVars, sysVars, hdrVars, closeVars, lateVars, trig_in, trig_out, mem, iso_agent, iso_daemon, iso_ev>>

\* main, lines 652-653: reap_children when the flag is set.
ChildReap ==
    /\ chld_exited
    /\ LET d == daemon_reap_children(
                    [children_count |-> chld_count, child_exited |-> TRUE], chld_zombies)
       IN  chld' = Chld(d.children_count, chld_running, 0, d.child_exited)
    /\ UNCHANGED <<ringVars, sysVars, hdrVars, closeVars, lateVars, trig_in, trig_out, mem, iso_agent, iso_daemon, iso_ev>>

NextChildren == ChildTrigger \/ ChildFlush \/ ChildExit \/ ChildReap

\* ---------------------------------------------------------------------
\* SpecBuffer: the stream buffers of one process and their common counter
\* (buffer.c). Only lengths are kept; the counter and the limit are compared
\* with sums of lengths and nothing else, so the limit is scaled down.
\* ---------------------------------------------------------------------

\* BUFFER_LIMIT of buffer.c:27 (50000000 there).
BUFFER_LIMIT == 8
\* The stream buffers of the process (one per client record).
NumBufs == 3
\* The most bytes one call adds or removes (MAX_DATA_CHUNK in the callers).
MaxAppend == 2

\* mem is <<buflen of every buffer, total_mem, exited>>.
Mem(lens, total, exited) == <<lens, total, exited>>
buflen(b) == mem[1][b]
total_mem == mem[2]
mem_exited == mem[3]

\* bo is <<the function of buffer.c called last, its buffer, its len>>.
bo_op == bo[1]
bo_len == bo[3]

MemInit ==
    /\ mem = Mem([b \in 1..NumBufs |-> 0], 0, FALSE)
    /\ bo = <<"none", 0, 0>>

BufRest == <<ringVars, sysVars, hdrVars, closeVars, ag, lp, du, trig_in, trig_out, chld,
             iso_agent, iso_daemon, iso_ev>>

\* limited_malloc with the test of line 33 one byte late.
TotalOverLimitByTwo(total) == total > BUFFER_LIMIT + 1
\* limited_malloc, line 33.
TotalOverLimit(total) == total > BUFFER_LIMIT

\* limited_malloc: the counter is raised first, and the process exits when
\* it is over the limit.
limited_malloc(m, len) ==
    LET total == m[2] + len
    IN  Mem(m[1], total, TotalOverLimit(total))

\* limited_free.
limited_free(m, len) == Mem(m[1], m[2] - len, m[3])

\* buffer_free of buffer b, then buffer_init.
buffer_free(m, b) ==
    LET m1 == IF m[1][b] # 0 THEN limited_free(m, m[1][b]) ELSE m
    IN  Mem([m1[1] EXCEPT ![b] = 0], m1[2], m1[3])

\* The common shape of buffer_append and buffer_remove: the new block is
\* allocated while the old one is still counted, then the old one is freed.
Resize(m, b, newsize) ==
    LET m1 == limited_malloc(m, newsize)
    IN  IF m1[3] THEN m1
        ELSE LET m2 == buffer_free(m1, b)
             IN  Mem([m2[1] EXCEPT ![b] = newsize], m2[2], m2[3])

\* buffer_append(b, data, len), lines 70-79.
BufAppend(b, len) ==
    /\ ~mem_exited
    /\ mem' = Resize(mem, b, len + buflen(b))
    /\ bo' = <<"buffer_append", b, len>>
    /\ UNCHANGED BufRest

\* buffer_remove(b, len), lines 81-89, for the len of its caller
\* (write_stdin.c:37-47): all of the buffer, or MAX_DATA_CHUNK bytes of a
\* longer one.
BufRemove(b, len) ==
    /\ ~mem_exited
    /\ len = (IF buflen(b) > MaxAppend THEN MaxAppend ELSE buflen(b))
    /\ mem' = Resize(mem, b, buflen(b) - len)
    /\ bo' = <<"buffer_remove", b, len>>
    /\ UNCHANGED BufRest

\* buffer_free(b), lines 57-62, of a record that is torn down.
BufFree(b) ==
    /\ ~mem_exited
    /\ buflen(b) > 0
    /\ mem' = buffer_free(mem, b)
    /\ bo' = <<"buffer_free", b, 0>>
    /\ UNCHANGED BufRest

NextBuffer ==
    \/ \E b \in 1..NumBufs, len \in 1..MaxAppend : BufAppend(b, len)
    \/ \E b \in 1..NumBufs, len \in 1..MaxAppend : BufRemove(b, len)
    \/ \E b \in 1..NumBufs : BufFree(b)

\* ---------------------------------------------------------------------
\* SpecIsolation: the handlers of the agent and of the daemon at work on
\* two records, without the transport between them.
\* ---------------------------------------------------------------------

\* The client ids of the two records; the session of id c is c + 1.
IsoIds == {0, 1}
\* The most bytes a stdin buffer of the agent holds here.
IsoMaxBuf == 1

\* iso_agent is what the agent's handlers work on (as AgentWorld), with out
\* the frames of the last handler when it met an error; iso_ev is <<the error the last handler met,
\* the record it was at work on>>, or the process that made the last step.
IsoAgentInit ==
    /\ iso_agent = [client_info |-> [id \in IsoIds |-> NoInfo],
                    process_fd |-> [fd \in PFds |-> NoProcessFd],
                    max_process_fd |-> -1, child_exited |-> FALSE, exited |-> FALSE,
                    afds |-> [fd \in AFds |-> FreeFd], hist |-> hist,
                    out |-> <<>>, started |-> {}, created |-> {}]
    /\ iso_ev = <<"none", 0>>

\* The two processes share no state: a behaviour follows one of them.
IsoAgentEvents == {"agent", "stdin_error", "read_error"}
IsoDaemonEvents == {"daemon", "sock_read_error", "sock_write_error"}

\* The world a handler starts from, and what is kept of the one it leaves.
IsoStart == [iso_agent EXCEPT !.out = <<>>]
IsoAgentCommit(w, ev, c) ==
    /\ iso_ev[1] \notin IsoDaemonEvents
    /\ iso_agent' = [w EXCEPT !.hist = iso_agent.hist, !.created = {},
                              !.out = IF ev = "agent" THEN <<>> ELSE @]
    /\ iso_ev' = IF ev = "agent" THEN <<ev, 0>> ELSE <<ev, c>>
    /\ UNCHANGED <<ringVars, sysVars, hdrVars, closeVars, lateVars, trig_in, trig_out, chld, mem, iso_daemon>>

\* handle_server_data, MSG_SERVER_TO_AGENT_EXEC_CMDLINE for a free record,
\* once for each session.
IsoExec(c) ==
    /\ ~iso_agent.exited
    /\ iso_agent.client_info[c].pid = 0
    /\ (c + 1) \notin iso_agent.started
    /\ IsoAgentCommit(handle_exec(IsoStart, c, c + 1), "agent", c)

\* handle_server_data, MSG_SERVER_TO_AGENT_INPUT of len bytes; the write
\* loop of write_stdin goes as run says.
IsoInput(c, len, run) ==
    LET info == iso_agent.client_info[c]
        writes == info.pid # 0 /\ len > 0 /\ info.buffer = <<>>
    IN  /\ ~iso_agent.exited
        /\ Len(info.buffer) + len <= IsoMaxBuf
        /\ writes \/ run.stop = "DONE"
        /\ IsoAgentCommit(
               handle_input(IsoStart, c, [k \in 1..len |-> k], c + 1, run.n, run.stop),
               IF writes /\ run.stop = "ERROR" THEN "stdin_error" ELSE "agent", c)

\* handle_server_data, MSG_SERVER_TO_AGENT_CLIENT_END.
IsoClientEnd(c) ==
    /\ ~iso_agent.exited
    /\ IsoAgentCommit(remove_process(IsoStart, c, -1), "agent", c)

\* handle_process_data_all: handle_process_data(fd) for a valid descriptor,
\* with ret the result of its read.
IsoProcessData(fd, ret) ==
    /\ ~iso_agent.exited
    /\ fd <= iso_agent.max_process_fd
    /\ iso_agent.process_fd[fd].type # FDTYPE_INVALID
    /\ ret <= MaxOut - iso_agent.afds[fd].n
    /\ IsoAgentCommit(handle_process_data(IsoStart, fd, ret),
                      IF ret < 0 THEN "read_error" ELSE "agent",
                      iso_agent.process_fd[fd].client_id)

\* main, lines 578-582: flush_client_data_agent for a blocked record, with
\* ret the result of the write.
IsoFlush(c, ret) ==
    LET info == iso_agent.client_info[c]
    IN  /\ ~iso_agent.exited
        /\ info.pid # 0 /\ info.is_blocked # 0
        /\ ret \in WriteRets(Len(info.buffer))
        /\ IsoAgentCommit(flush_client_data_agent(IsoStart, c, ret),
                          IF ret = WriteFailed THEN "stdin_error" ELSE "agent", c)

\* reap_children, lines 443-448, for the child of record c.
IsoReap(c, status) ==
    /\ ~iso_agent.exited
    /\ iso_agent.client_info[c].pid > 0
    /\ iso_agent.client_info[c].is_exited = 0
    /\ IsoAgentCommit(
           possibly_remove_process(
               [IsoStart EXCEPT !.client_info[c].is_exited = 1,
                                !.client_info[c].exit_status = status], c),
           "agent", c)

NextIsoAgent ==
    \/ \E c \in IsoIds : IsoExec(c)
    \/ \E c \in IsoIds, len \in 0..IsoMaxBuf : \E run \in WriteRuns(len) : IsoInput(c, len, run)
    \/ \E c \in IsoIds : IsoClientEnd(c)
    \/ \E fd \in AFds, ret \in {-1, 0, 1} : IsoProcessData(fd, ret)
    \/ \E c \in IsoIds, ret \in {WriteFailed, WriteAgain, 1} : IsoFlush(c, ret)
    \/ \E c \in IsoIds, status \in {0} : IsoReap(c, status)

\* The daemon with two clients whose command lines have been passed to the
\* agent (handle_new_client, then handle_cmdline_message_from_client).
IsoDaemonInit ==
    iso_daemon = [clients |-> [fd \in IsoIds |-> [state |-> CLIENT_DATA, buffer |-> <<>>]],
                  max_client_fd |-> 1, children_count |-> 0, exited |-> FALSE,
                  socks |-> [fd \in IsoIds |->
                               [sess |-> fd + 1, stage |-> "data", nread |-> 0, eof |-> FALSE]],
                  hist |-> hist, out |-> <<>>, forked |-> 0, policy |-> FALSE, tag |-> 0]

IsoDaemonStart(fd) == [iso_daemon EXCEPT !.out = <<>>, !.tag = fd + 1]
IsoDaemonCommit(w, ev, fd) ==
    /\ iso_ev[1] \notin IsoAgentEvents
    /\ iso_daemon' = [w EXCEPT !.hist = iso_daemon.hist, !.forked = 0,
                               !.children_count = 0, !.tag = 0,
                               !.out = IF ev = "daemon" THEN <<>> ELSE @]
    /\ iso_ev' = IF ev = "daemon" THEN <<ev, 0>> ELSE <<ev, fd>>
    /\ UNCHANGED <<ringVars, sysVars, hdrVars, closeVars, lateVars, trig_in, trig_out, chld, mem, iso_agent>>

IsoLive(fd) ==
    /\ ~iso_daemon.exited
    /\ fd <= iso_daemon.max_client_fd
    /\ iso_daemon.clients[fd].state # CLIENT_INVALID

\* main, lines 669-672: handle_message_from_client(fd) for a client in the
\* read set, with ret the result of its read.
IsoClientRead(fd, ret) ==
    /\ IsoLive(fd)
    /\ "DONT_READ" \notin iso_daemon.clients[fd].state
    /\ iso_daemon.socks[fd].nread + ret <= MaxIn
    /\ IsoDaemonCommit(handle_data_from_client(IsoDaemonStart(fd), fd, ret),
                       IF ret < 0 THEN "sock_read_error" ELSE "daemon", fd)

\* handle_message_from_agent for a STDOUT frame of one byte for client fd;
\* the write loop of write_stdin goes as run says.
IsoAgentData(fd, run) ==
    LET cl == iso_daemon.clients[fd]
        f == Frame(MSG_AGENT_TO_SERVER_STDOUT, fd, 1, 1, <<1>>, fd + 1)
        writes == "EXITED" \notin cl.state /\ cl.buffer = <<>>
    IN  /\ IsoLive(fd)
        /\ Len(cl.buffer) < 2
        /\ writes \/ run.stop = "DONE"
        /\ IsoDaemonCommit(
               get_packet_data_from_agent_and_pass_to_client(
                   IsoDaemonStart(fd), fd, MSG_SERVER_TO_CLIENT_STDOUT, f, run.n, run.stop),
               IF writes /\ run.stop = "ERROR" THEN "sock_write_error" ELSE "daemon", fd)

\* main, lines 674-677: write_buffered_data_to_client for a client in the
\* write set, with ret the result of the write.
IsoClientWrite(fd, ret) ==
    /\ IsoLive(fd)
    /\ "OUTQ_FULL" \in iso_daemon.clients[fd].state
    /\ ret \in WriteRets(Len(iso_daemon.clients[fd].buffer))
    /\ IsoDaemonCommit(write_buffered_data_to_client(IsoDaemonStart(fd), fd, ret),
                       IF ret = WriteFailed THEN "sock_write_error" ELSE "daemon", fd)

NextIsoDaemon ==
    \/ \E fd \in IsoIds, ret \in {-1, 0, 1} : IsoClientRead(fd, ret)
    \/ \E fd \in IsoIds : \E run \in WriteRuns(2) : IsoAgentData(fd, run)
    \/ \E fd \in IsoIds, ret \in {WriteFailed, WriteAgain, 1, 2} : IsoClientWrite(fd, ret)

IsoInit == IsoAgentInit /\ IsoDaemonInit
NextIsolation == NextIsoAgent \/ NextIsoDaemon

\* ---------------------------------------------------------------------
\* SpecVchan: the ring with the waits of libvchan_write and libvchan_read
\* and with libvchan_close. The side that writes this direction is the
\* server, the side that reads it is the client.
\* ---------------------------------------------------------------------

\* libvchan_is_eof on the server: the flag of the peer.
ServerSeesEof == client_closed
\* libvchan_is_eof on the client: the flag of the peer (line 55).
ClientSeesEof == server_closed

\* libvchan_write, lines 106-108, called with no space: the call goes into
\* libvchan_wait.
WriteWait ==
    /\ w_pc = "idle"
    /\ libvchan_buffer_space = 0
    /\ \E data \in SeqsUpTo(Byte, MaxReq) : w_data' = data
    /\ w_pc' = "wait"
    /\ UNCHANGED <<ring_buf, prod, cons, w_avail, w_idx, r_pc, r_avail, r_idx, r_data,
                   sent, rcvd, server_closed, client_closed, sysVars, hdrVars, lateVars,
                   trig_in, trig_out, chld, mem, iso_agent, iso_daemon, iso_ev>>

\* WriteWake returning 0 from the wait when there is still no space.
WriteWakeAtOnce ==
    /\ w_pc = "wait"
    /\ w_pc' = "idle" /\ w_data' = <<>> /\ w_avail' = 0 /\ w_idx' = 0
    /\ UNCHANGED <<ring_buf, prod, cons, r_pc, r_avail, r_idx, r_data,
                   sent, rcvd, server_closed, client_closed, sysVars, hdrVars, lateVars,
                   trig_in, trig_out, chld, mem, iso_agent, iso_daemon, iso_ev>>

\* libvchan_write, lines 106-114: libvchan_wait returns after an event of
\* the peer. With the peer closed the call returns -1; else the loop goes on
\* until there is space, and the call clamps and finds real_idx.
WriteWake ==
    /\ w_pc = "wait"
    /\ IF ServerSeesEof
       THEN /\ w_pc' = "idle" /\ w_data' = <<>> /\ w_avail' = 0 /\ w_idx' = 0
       ELSE /\ libvchan_buffer_space # 0
            /\ LET avail == Clamp(libvchan_buffer_space, Len(w_data), RealIdx(prod))
               IN  /\ w_data' = SubSeq(w_data, 1, avail)
                   /\ w_idx' = RealIdx(prod)
                   /\ w_avail' = avail
            /\ w_pc' = "copy"
    /\ UNCHANGED <<ring_buf, prod, cons, r_pc, r_avail, r_idx, r_data,
                   sent, rcvd, server_closed, client_closed, sysVars, hdrVars, lateVars,
                   trig_in, trig_out, chld, mem, iso_agent, iso_daemon, iso_ev>>

\* libvchan_read, lines 131-133, called with no data: the call goes into
\* libvchan_wait.
ReadWait ==
    /\ r_pc = "idle"
    /\ libvchan_data_ready = 0
    /\ r_pc' = "wait"
    /\ UNCHANGED <<ring_buf, prod, cons, w_pc, w_data, w_avail, w_idx, r_avail, r_idx,
                   r_data, sent, rcvd, server_closed, client_closed, sysVars, hdrVars, lateVars,
                   trig_in, trig_out, chld, mem, iso_agent, iso_daemon, iso_ev>>

\* libvchan_read, lines 131-139: libvchan_wait returns after an event of the
\* peer. With the peer closed, libvchan_is_eof sets client_closed and the
\* call returns -1; else the loop goes on until there is data, and the call
\* clamps to its argument size and finds real_idx.
ReadWake ==
    /\ r_pc = "wait"
    /\ IF ClientSeesEof
       THEN /\ client_closed' = TRUE
            /\ r_pc' = "idle" /\ r_avail' = 0 /\ r_idx' = 0
       ELSE /\ libvchan_data_ready # 0
            /\ \E size \in 0..MaxReq :
                 /\ r_idx' = RealIdx(cons)
                 /\ r_avail' = Clamp(libvchan_data_ready, size, RealIdx(cons))
            /\ r_pc' = "copy"
            /\ UNCHANGED client_closed
    /\ UNCHANGED <<ring_buf, prod, cons, w_pc, w_data, w_avail, w_idx,
                   r_data, sent, rcvd, server_closed, sysVars, hdrVars, lateVars,
                   trig_in, trig_out, chld, mem, iso_agent, iso_daemon, iso_ev>>

\* libvchan_close on the server, lines 153-158: once all it wrote has been
\* read, server_closed is set.
ServerClose ==
    /\ w_pc = "idle"
    /\ ~server_closed
    /\ prod = cons
    /\ server_closed' = TRUE
    /\ UNCHANGED <<ringVars, client_closed, sysVars, hdrVars, lateVars,
                   trig_in, trig_out, chld, mem, iso_agent, iso_daemon, iso_ev>>

\* libvchan_close on the client, lines 153-155 and 162-163 (what the client
\* wrote goes the other direction): client_closed is set.
ClientClose ==
    /\ r_pc = "idle"
    /\ ~client_closed
    /\ client_closed' = TRUE
    /\ UNCHANGED <<ringVars, server_closed, sysVars, hdrVars, lateVars,
                   trig_in, trig_out, chld, mem, iso_agent, iso_daemon, iso_ev>>

NextVchan ==
    \/ NextRing
    \/ WriteWait
    \/ WriteWake
    \/ ReadWait
    \/ ReadWake
    \/ ServerClose
    \/ ClientClose

\* ---------------------------------------------------------------------
\* SpecCorrupt: the reader of the ring with a peer that stores what it
\* likes in the producer index of the shared page.
\* ---------------------------------------------------------------------
\* How many bytes the reader may have taken before the peer stops storing.
MaxStale == 2

\* The peer's domain stores a value in prod (struct vchan_interface is in
\* memory shared between the domains). Values that make data_ready negative
\* are left out: memcpy would get a negative length.
PeerSetsProd ==
    /\ Len(rcvd) <= MaxStale
    /\ \E p \in 0..(IdxMod - 1) :
        /\ ToInt(U32(p - cons)) >= 0
        /\ prod' = p
    /\ UNCHANGED <<ring_buf, cons, w_pc, w_data, w_avail, w_idx, r_pc, r_avail, r_idx,
                   r_data, sent, rcvd, sysVars, hdrVars, auxVars>>

NextCorrupt ==
    \/ PeerSetsProd
    \/ ReadBegin
    \/ ReadCopy
    \/ ReadPublish

\* ---------------------------------------------------------------------
\* SpecEof: the agent's event loop on the ring it reads. The agent is the
\* server of the channel (peer_server_init), the daemon its client; the
\* daemon's writes are the ring's write steps.
\* ---------------------------------------------------------------------
Ag(pc, status, target) == <<pc, status, target>>
ag_pc == ag[1]
ag_status == ag[2]
ag_target == ag[3]

EofRest == <<sysVars, hdrVars, trig_in, trig_out, chld, mem, iso_agent, iso_daemon, iso_ev, lp, du, bo>>

EofInit == ag = Ag("select", 0, 0)

\* What is left of the read_all_vchan_ext in progress: size - written.
EofLeft == U32(ag_target - cons)

\* wait_for_vchan_or_argfd_once, lines 134-137 on the server: pselect has
\* returned; with the peer's flag set the process leaves by exit(0).
EofSelect ==
    /\ ag_pc = "select"
    /\ ag' = IF client_closed THEN Ag("exited", 0, 0) ELSE Ag("ready", 0, 0)
    /\ UNCHANGED <<ringVars, closeVars, EofRest>>

\* main, lines 571-572: while (read_ready_vchan_ext()) handle_server_data();
\* a handler starts a read_all_vchan_ext of some size.
EofReady ==
    /\ ag_pc = "ready"
    /\ IF libvchan_data_ready # 0
       THEN \E size \in 1..MaxReq : ag' = Ag("read", 0, U32(cons + size))
       ELSE ag' = Ag("select", 0, 0)
    /\ UNCHANGED <<ringVars, closeVars, EofRest>>

\* read_all_vchan_ext, lines 56-59: libvchan_read of what is left.
EofRead ==
    /\ ag_pc = "read"
    /\ EofLeft # 0
    /\ \/ ReadBegin /\ r_avail' = Clamp(libvchan_data_ready, EofLeft, RealIdx(cons))
       \/ ReadCopy
       \/ ReadPublish
       \/ /\ r_pc = "idle"
          /\ libvchan_data_ready = 0
          /\ r_pc' = "wait"
          /\ UNCHANGED <<ring_buf, prod, cons, w_pc, w_data, w_avail, w_idx, r_avail,
                         r_idx, r_data, sent, rcvd, closeVars, lateVars, EofRest>>

\* libvchan_read, lines 131-139, on the server, and read_all_vchan_ext,
\* lines 64-67: libvchan_wait returns; with the peer's flag set the read
\* returns -1 and the process leaves by exit(1).
EofReadWake ==
    /\ r_pc = "wait"
    /\ IF client_closed
       THEN /\ r_pc' = "idle" /\ r_avail' = 0 /\ r_idx' = 0
            /\ ag' = Ag("exited", 1, 0)
       ELSE /\ libvchan_data_ready # 0
            /\ r_idx' = RealIdx(cons)
            /\ r_avail' = Clamp(libvchan_data_ready, EofLeft, RealIdx(cons))
            /\ r_pc' = "copy"
            /\ UNCHANGED ag
    /\ UNCHANGED <<ring_buf, prod, cons, w_pc, w_data, w_avail, w_idx, r_data,
                   sent, rcvd, closeVars, EofRest>>

\* read_all_vchan_ext, line 72: all of size has been read; the handler
\* returns to the loop of line 571.
EofReadDone ==
    /\ ag_pc = "read"
    /\ EofLeft = 0
    /\ ag' = Ag("ready", 0, 0)
    /\ UNCHANGED <<ringVars, closeVars, EofRest>>

\* libvchan_close on the client (the daemon's side): once all it wrote has
\* been read, client_closed is set.
EofPeerClose ==
    /\ w_pc = "idle"
    /\ prod = cons
    /\ ~client_closed
    /\ client_closed' = TRUE
    /\ UNCHANGED <<ringVars, server_closed, lateVars, EofRest>>

\* The daemon's writes.
EofPeerWrite ==
    /\ ~client_closed
    /\ (WriteBegin \/ WriteCopy \/ WritePublish)

NextEof ==
    \/ EofSelect
    \/ EofReady
    \/ EofRead
    \/ EofReadWake
    \/ EofReadDone
    \/ EofPeerClose
    \/ EofPeerWrite

\* ---------------------------------------------------------------------
\* SpecFlow: one iteration after another of the agent's main loop, or of
\* the daemon's, with the read set that select filled in. The handlers work
\* on the records of SpecIsolation; a behaviour follows one process.
\* ---------------------------------------------------------------------
Lp(who, phase, ready, read) == <<who, phase, ready, read>>
lp_who == lp[1]
lp_phase == lp[2]
lp_ready == lp[3]
lp_read == lp[4]

FlowInit == lp = Lp("none", "select", {}, -1)

FlowRest == <<ringVars, sysVars, hdrVars, closeVars, ag, du, bo, trig_in, trig_out, chld, mem, iso_ev>>

FlowAgentCommit(w) ==
    iso_agent' = [w EXCEPT !.hist = iso_agent.hist, !.created = {}, !.out = <<>>]

\* fill_fds_for_select, lines 460-465: the descriptors put in rdset.
FlowAgentReadable ==
    {fd \in PFds : /\ fd <= iso_agent.max_process_fd
                   /\ iso_agent.process_fd[fd].type # FDTYPE_INVALID
                   /\ iso_agent.process_fd[fd].is_blocked = 0}

\* main, lines 560-565: the wait returns with some descriptors of rdset
\* readable.
FlowAgentSelect ==
    /\ lp_who \in {"none", "agent"}
    /\ lp_phase = "select"
    /\ ~iso_agent.exited
    /\ \E ready \in SUBSET FlowAgentReadable : lp' = Lp("agent", "server", ready, -1)
    /\ UNCHANGED <<iso_agent, iso_daemon, FlowRest>>

\* main, lines 571-572: one handle_server_data, for EXEC_CMDLINE on a free
\* record (once for each session) or for XOFF or XON on a live one.
FlowAgentServerData(c, type) ==
    /\ lp_who = "agent"
    /\ lp_phase = "server"
    /\ IF type = MSG_SERVER_TO_AGENT_EXEC_CMDLINE
       THEN /\ iso_agent.client_info[c].pid = 0
            /\ (c + 1) \notin iso_agent.started
            /\ FlowAgentCommit(handle_exec(IsoStart, c, c + 1))
       ELSE /\ iso_agent.client_info[c].pid # 0
            /\ FlowAgentCommit(set_blocked_outerr(IsoStart, c,
                                   IF type = MSG_XOFF THEN 1 ELSE 0, "pad"))
    /\ lp' = Lp("agent", "server", lp_ready, -1)
    /\ UNCHANGED <<iso_daemon, FlowRest>>

\* main, line 571: read_ready_vchan_ext returns 0.
FlowAgentServerDone ==
    /\ lp_who = "agent"
    /\ lp_phase = "server"
    /\ lp' = Lp("agent", "process", lp_ready, -1)
    /\ UNCHANGED <<iso_agent, iso_daemon, FlowRest>>

\* handle_process_data_all, lines 427-434: the next descriptor of the loop
\* that is valid and set in select_fds gets handle_process_data, with ret
\* the result of its read; the loop ends when there is none.
FlowAgentProcessData ==
    /\ lp_who = "agent"
    /\ lp_phase = "process"
    /\ LET todo == {fd \in lp_ready : /\ fd <= iso_agent.max_process_fd
                                      /\ iso_agent.process_fd[fd].type # FDTYPE_INVALID}
       IN  IF todo = {}
           THEN /\ lp' = Lp("agent", "select", {}, -1)
                /\ UNCHANGED iso_agent
           ELSE LET fd == SetMin(todo)
                IN  \E ret \in {-1, 0, 1} :
                      /\ ret <= MaxOut - iso_agent.afds[fd].n
                      /\ FlowAgentCommit(handle_process_data(IsoStart, fd, ret))
                      /\ lp' = Lp("agent", "process", {i \in lp_ready : i > fd}, fd)
    /\ UNCHANGED <<iso_daemon, FlowRest>>

FlowDaemonCommit(w) ==
    iso_daemon' = [w EXCEPT !.hist = iso_daemon.hist, !.forked = 0,
                            !.children_count = 0, !.tag = 0, !.out = <<>>]

\* fill_fdsets_for_select, lines 610-615: the clients put in read_fdset.
FlowDaemonReadable ==
    {fd \in IsoIds : /\ fd <= iso_daemon.max_client_fd
                     /\ iso_daemon.clients[fd].state # CLIENT_INVALID
                     /\ "DONT_READ" \notin iso_daemon.clients[fd].state}

\* main, lines 652-660: the wait returns with some clients of read_fdset
\* readable.
FlowDaemonSelect ==
    /\ lp_who \in {"none", "daemon"}
    /\ lp_phase = "select"
    /\ ~iso_daemon.exited
    /\ \E ready \in SUBSET FlowDaemonReadable : lp' = Lp("daemon", "server", ready, -1)
    /\ UNCHANGED <<iso_agent, iso_daemon, FlowRest>>

\* main, lines 666-667: one handle_message_from_agent, for XOFF or XON.
FlowDaemonAgentMsg(fd, type) ==
    /\ lp_who = "daemon"
    /\ lp_phase = "server"
    /\ FlowDaemonCommit(handle_message_from_agent(
                            IsoDaemonStart(fd), Frame(type, fd, 0, 0, <<>>, fd + 1), 0, "DONE"))
    /\ lp' = Lp("daemon", "server", lp_ready, -1)
    /\ UNCHANGED <<iso_agent, FlowRest>>

\* main, line 666: read_ready_vchan_ext returns 0.
FlowDaemonAgentDone ==
    /\ lp_who = "daemon"
    /\ lp_phase = "server"
    /\ lp' = Lp("daemon", "process", lp_ready, -1)
    /\ UNCHANGED <<iso_agent, iso_daemon, FlowRest>>

\* main, lines 669-672: the next client of the loop that is not
\* CLIENT_INVALID and is set in read_fdset gets handle_message_from_client,
\* with ret the result of its read; the loop ends when there is none.
FlowDaemonClientRead ==
    /\ lp_who = "daemon"
    /\ lp_phase = "process"
    /\ LET todo == {fd \in lp_ready : /\ fd <= iso_daemon.max_client_fd
                                      /\ iso_daemon.clients[fd].state # CLIENT_INVALID}
       IN  IF todo = {}
           THEN /\ lp' = Lp("daemon", "select", {}, -1)
                /\ UNCHANGED iso_daemon
           ELSE LET fd == SetMin(todo)
                IN  \E ret \in {-1, 0, 1} :
                      /\ iso_daemon.socks[fd].nread + ret <= MaxIn
                      /\ FlowDaemonCommit(handle_data_from_client(IsoDaemonStart(fd), fd, ret))
                      /\ lp' = Lp("daemon", "process", {i \in lp_ready : i > fd}, fd)
    /\ UNCHANGED <<iso_agent, FlowRest>>

NextFlow ==
    \/ FlowAgentSelect
    \/ \E c \in IsoIds, type \in {MSG_SERVER_TO_AGENT_EXEC_CMDLINE, MSG_XOFF, MSG_XON} :
          FlowAgentServerData(c, type)
    \/ FlowAgentServerDone
    \/ FlowAgentProcessData
    \/ FlowDaemonSelect
    \/ \E fd \in IsoIds, type \in {MSG_XOFF, MSG_XON} : FlowDaemonAgentMsg(fd, type)
    \/ FlowDaemonAgentDone
    \/ FlowDaemonClientRead

\* ---------------------------------------------------------------------
\* SpecDefaultUser: get_cmdline_body_from_client_and_pass_to_agent on the
\* bytes of one command body (qrexec_daemon.c:233-255).
\* ---------------------------------------------------------------------

\* A byte is a one-letter string; NUL is the byte 0.
NUL == "0"
\* default_user_keyword, without its terminating NUL, and default_user.
default_user_keyword == <<"D", "E", "F", "A", "U", "L", "T", ":">>
default_user == <<"u", "s", "e", "r">>

\* The bodies a client sends here: the first k bytes of the keyword, with at
\* most one of them replaced by another byte, and a tail behind them.
BodyTails == {<<>>, <<"x">>, <<"x", NUL>>, <<NUL>>}
OneByteOff(k) ==
    {[i \in 1..k |-> IF i = p THEN b ELSE default_user_keyword[i]] :
        p \in 0..k, b \in {"x", NUL}}
ClientBodies ==
    UNION {{head \o tail : head \in OneByteOff(k), tail \in BodyTails} :
            k \in 0..Len(default_user_keyword)}

\* What the build may have behind the len bytes of buf on the stack, where
\* strncmp reads on when len is less than the 8 bytes it compares: bytes
\* that end the comparison, or bytes equal to the rest of the keyword.
BehindBuf(len) ==
    {<<NUL>>}
    \cup (IF len < Len(default_user_keyword)
          THEN {SubSeq(default_user_keyword, len + 1, Len(default_user_keyword))}
          ELSE {})

\* !strncmp(buf, default_user_keyword, default_user_keyword_len_without_colon+1):
\* the keyword has no NUL, so the result is 0 exactly when the first 8 bytes
\* from buf on are the keyword.
strncmp_is_zero(buf, behind) ==
    LET memory == buf \o behind
        n == default_user_keyword_len_without_colon + 1
    IN  Len(memory) >= n /\ SubSeq(memory, 1, n) = default_user_keyword

\* write_all_vchan_ext(buf + from, size): nothing is written when size <= 0.
BytesWritten(buf, from, size) ==
    IF size <= 0 THEN <<>> ELSE SubSeq(buf, from + 1, from + size)

\* Lines 243-253: the len field of the server_header and the bytes written
\* behind it. len is kept as the number the code computes; in the unsigned
\* field of the header a negative one reads as that number + 2^32.
PassBody(buf, behind) ==
    LET len == Len(buf)
    IN  IF strncmp_is_zero(buf, behind)
        THEN [len |-> len - default_user_keyword_len_without_colon + Len(default_user),
              bytes |-> default_user
                        \o BytesWritten(buf, default_user_keyword_len_without_colon,
                                        len - default_user_keyword_len_without_colon)]
        ELSE [len |-> len, bytes |-> BytesWritten(buf, 0, len)]

\* du is <<where the handler is, the body read, the bytes behind buf, the
\* frame written>>.
Du(pc, buf, behind, frame) == <<pc, buf, behind, frame>>
du_pc == du[1]
du_buf == du[2]
du_behind == du[3]
du_frame == du[4]
NoFrame == [len |-> 0, bytes |-> <<>>]

DuInit == du = Du("idle", <<>>, <<>>, NoFrame)

DuRest == <<ringVars, sysVars, hdrVars, closeVars, ag, lp, bo, trig_in, trig_out, chld, mem,
            iso_agent, iso_daemon, iso_ev>>

\* read_all of line 239 has filled buf with the body of the client.
DuRead ==
    /\ du_pc = "idle"
    /\ \E buf \in ClientBodies : \E behind \in BehindBuf(Len(buf)) :
         du' = Du("read", buf, behind, NoFrame)
    /\ UNCHANGED DuRest

\* Lines 243-254.
DuPass ==
    /\ du_pc = "read"
    /\ du' = Du("passed", du_buf, du_behind, PassBody(du_buf, du_behind))
    /\ UNCHANGED DuRest

NextDefaultUser == DuRead \/ DuPass
(***************************************************************************)
(* The specifications                                                      *)
(***************************************************************************)
Init ==
    /\ RingInit /\ SysInit /\ HdrInit /\ TrigInit /\ ChldInit /\ MemInit /\ IsoInit
    /\ EofInit /\ FlowInit /\ DuInit

SpecRing == Init /\ [][NextRing]_vars

SpecHdr == Init /\ [][NextHdr]_vars

Spec == Init /\ [][Next]_vars

SpecTrigger == Init /\ [][NextTrigger]_vars


SpecChildren == Init /\ [][NextChildren]_vars

SpecBuffer == Init /\ [][NextBuffer]_vars

SpecIsolation == Init /\ [][NextIsolation]_vars

SpecVchan == Init /\ [][NextVchan]_vars

SpecCorrupt == Init /\ [][NextCorrupt]_vars

SpecEof == Init /\ [][NextEof]_vars

SpecFlow == Init /\ [][NextFlow]_vars

SpecDefaultUser == Init /\ [][NextDefaultUser]_vars
\* C5: in every reachable state of a ring direction, whatever the sizes and
\* the interleaving of libvchan_write and libvchan_read,
\* 0 <= producer - consumer <= buffer_size.
RingIndexInvariant ==
    /\ 0 <= libvchan_data_ready
    /\ libvchan_data_ready <= RingSize

\* The ring is full and the producer index has wrapped past the index width.
RingFullAfterWrap ==
    /\ libvchan_data_ready = RingSize
    /\ prod < cons

\* C6: the ring is a FIFO of bytes: the concatenation of the bytes returned by
\* the reads is a prefix of the concatenation of the bytes accepted by the
\* writes, i.e. no returned byte is left unmatched once the common prefix of
\* the two histories is cancelled.
RingIsByteStream == rcvd = <<>>

\* A read that was cut short at the physical end of the array, while more
\* data was ready, has copied out a byte 1 that a write put there.
ReadCutAtArrayEnd ==
    /\ r_pc = "publish"
    /\ r_avail > 0
    /\ r_idx + r_avail = RingSize
    /\ r_avail < libvchan_data_ready
    /\ r_data[r_avail] = 1


(***************************************************************************)
(* The frames on their way between the daemon and the agent                *)
(***************************************************************************)
\* The frames the daemon has written or is in the middle of writing.
DaemonFrames == d2a \o d_pend

\* The frames the agent has written or is in the middle of writing.
AgentFrames == a2d \o a_pend

InFlight == DaemonFrames \o AgentFrames

\* C1: for every session, the bytes written to the stdin of its child are a
\* prefix of the bytes the daemon read from the client: the k-th byte written
\* is the k-th byte of the client, whatever the writes on stdin return.
StdinInOrder == \A s \in Sessions : ~hist.stdin[s].bad

\* C2: nothing the daemon writes to a client socket, and no EXIT_CODE that
\* ends a client, was produced by the agent for another session than the one
\* the client behind the socket started.
NoCrossOver == ~hist.crossed /\ ~hist.killed

\* C3: once the agent has written EXIT_CODE for a client_id, it writes no
\* further STDOUT, STDERR, XON, XOFF or EXIT_CODE frame with that id until a
\* later command starts a new session on the id.
ExitCodeIsLast == ~hist.late

\* The agent has written a synthesized exit code for a session (a read
\* error on the child's output) while the child of the session still runs.
SynthesizedExitBeforeChildEnds ==
    \E k \in 1..Len(a2d) :
        /\ a2d[k].type = MSG_AGENT_TO_SERVER_EXIT_CODE
        /\ a2d[k].data = <<127>>
        /\ a2d[k].client_id \in hist.exit_sent
        /\ a2d[k].tag \in kids.a_run
        /\ agent.client_info[a2d[k].client_id].pid = 0

\* C4: while CLIENT_END(id) has not been taken by the agent, or a frame that
\* the agent wrote for a session on id has not been taken by the daemon,
\* the descriptor id still belongs to that session: it is neither closed nor
\* given to a new client.
QuarantineKept ==
    /\ \A k \in 1..Len(DaemonFrames) :
          LET f == DaemonFrames[k]
          IN  f.type = MSG_SERVER_TO_AGENT_CLIENT_END => socks[f.client_id].sess = f.tag
    /\ \A k \in 1..Len(AgentFrames) :
          LET f == AgentFrames[k]
          IN  (f.type \in AgentIdTypes /\ f.tag \in Sessions /\ f.client_id \in ClientFds)
                  => socks[f.client_id].sess = f.tag

\* C7: every frame on the transport, of every type, was begun when
\* buffer_space could hold its header and its payload.
FramesFit == \A k \in 1..Len(InFlight) : InFlight[k].fit

\* C8: every header on the transport, of every type, is followed by exactly
\* as many payload bytes as its length field says.
LengthMatchesPayload == \A k \in 1..Len(InFlight) : InFlight[k].paylen = InFlight[k].len

\* C9: neither the daemon nor the agent is ever suspended inside a handler,
\* in a write on the transport or in a read on a client socket.
HandlersNeverBlock == ~DBlocked /\ ~ABlocked

\* C17: a child that copies its stdin to its stdout can return to the client
\* only what reached its stdin. When the only session is one started with
\* EXEC_CMDLINE, the client has closed its side after writing N bytes and the
\* agent has closed the stdin of the child on the INPUT of length 0, the
\* stdin has received exactly those N bytes, in order.
EchoInputComplete ==
    \A c \in ClientFds :
        LET info == agent.client_info[c]
        IN  (/\ next_sess = 2
             /\ info.pid > 0 /\ info.stdin_fd = -1
             /\ socks[c].sess = info.sess /\ socks[c].eof)
            => /\ hist.stdin[info.sess].n = socks[c].nread
               /\ ~hist.stdin[info.sess].bad

\* C18: for a session started with JUST_EXEC the agent has no process record
\* and no descriptor, no frame of the agent belongs to the session, nothing
\* was written to its client, and from the handler that forwarded the
\* command on the daemon holds no open socket of the session (so it reads
\* nothing more from the client).
JustExecForgotten ==
    \A s \in hist.just :
        /\ \A c \in ClientFds : agent.client_info[c].sess # s /\ socks[c].sess # s
        /\ \A fd \in AFds : afds[fd].sess # s
        /\ \A k \in 1..Len(AgentFrames) : AgentFrames[k].tag # s
        /\ s \notin hist.got

\* The agent has forked the child of a JUST_EXEC session and has read the
\* CLIENT_END that followed the command.
JustExecDone ==
    \E s \in hist.just :
        /\ s \in kids.a_run
        /\ \A k \in 1..Len(DaemonFrames) : DaemonFrames[k].tag # s

\* C23: every client record that is not CLIENT_INVALID has an index from 0
\* to MAX_FDS - 1, and an accept that returns a descriptor of MAX_FDS or
\* more (the connection counter moves, no socket of the table does) ends
\* the daemon with its records and max_client_fd as they were.
ClientIdBound ==
    [][/\ \A fd \in DOMAIN daemon'.clients :
            daemon'.clients[fd].state # CLIENT_INVALID => (0 <= fd /\ fd < MAX_FDS)
       /\ (next_sess' # next_sess /\ socks' = socks)
            => /\ daemon'.exited
               /\ daemon'.clients = daemon.clients
               /\ daemon'.max_client_fd = daemon.max_client_fd]_vars

\* The first client is still connected, the second connection got a
\* descriptor beyond the table, and the daemon has exited.
AcceptedBeyondTable ==
    /\ next_sess = 3
    /\ socks[0].sess = 1
    /\ daemon.clients[0].state # CLIENT_INVALID
    /\ \A fd \in ClientFds : socks[fd].sess # 2
    /\ daemon.exited


\* Every frame written or being written is one its ring can hold.
RECURSIVE FramesHoldable(_, _)
FramesHoldable(frames, cap) ==
    frames = <<>> \/ (/\ ServerHeaderSize + Head(frames).paylen <= cap
                      /\ FramesHoldable(Tail(frames), cap))

\* C24: the daemon and the agent are never both inside write_all_vchan_ext
\* waiting for room, each on the ring the other one reads. Frames longer
\* than a ring are left aside: no frame of the run is one.
NoWriteWriteDeadlock ==
    (FramesHoldable(d2a \o d_pend, D2ACap) /\ FramesHoldable(a2d \o a_pend, A2DCap))
        => ~(WriterBlocked(d2a, d_pend, D2ACap) /\ WriterBlocked(a2d, a_pend, A2DCap))

\* The daemon wrote, in this step, a frame of the given type for client fd.
DaemonEmits(type, fd) ==
    \E k \in (Len(DaemonFrames) + 1)..(Len(d2a') + Len(d_pend')) :
        LET f == (d2a' \o d_pend')[k]
        IN  f.type = type /\ f.client_id = fd

\* C25: a client's buffer is empty when the client is accepted. In a step
\* that leaves the client's session going, the daemon writes XOFF for the
\* client exactly when the buffer goes from empty to not empty, and
\* CLIENT_OUTQ_FULL is then set; it writes XON exactly when the buffer goes
\* from not empty to empty, and CLIENT_OUTQ_FULL is then clear. So the XOFF
\* and XON frames of a session alternate, XOFF first.
DaemonFlowSignalling ==
    [][\A fd \in ClientFds :
         LET cl == daemon.clients[fd]
             cl2 == daemon'.clients[fd]
         IN  /\ (cl.state = CLIENT_INVALID /\ cl2.state # CLIENT_INVALID /\ socks'[fd].sess # 0)
                   => Len(cl2.buffer) = 0
             /\ (/\ socks[fd].sess # 0 /\ socks'[fd].sess = socks[fd].sess
                 /\ cl.state # CLIENT_INVALID /\ cl2.state # CLIENT_INVALID)
                   => /\ DaemonEmits(MSG_XOFF, fd)
                          <=> (Len(cl.buffer) = 0 /\ Len(cl2.buffer) # 0)
                      /\ DaemonEmits(MSG_XOFF, fd) => "OUTQ_FULL" \in cl2.state
                      /\ DaemonEmits(MSG_XON, fd)
                          <=> (Len(cl.buffer) # 0 /\ Len(cl2.buffer) = 0)
                      /\ DaemonEmits(MSG_XON, fd) => "OUTQ_FULL" \notin cl2.state]_vars

\* The daemon's XOFF and, behind it, its XON of one session are both on
\* their way to the agent.
XoffThenXonInFlight ==
    \E i, j \in 1..Len(DaemonFrames) :
        /\ i < j
        /\ DaemonFrames[i].type = MSG_XOFF
        /\ DaemonFrames[j].type = MSG_XON
        /\ DaemonFrames[i].client_id = DaemonFrames[j].client_id
        /\ DaemonFrames[i].tag = DaemonFrames[j].tag
        /\ DaemonFrames[i].tag # 0

\* C27: a record of the daemon is other than CLIENT_INVALID only while the
\* socket of its index is one the daemon accepted and still holds open.
NoGhostClientRecords ==
    \A fd \in ClientFds :
        daemon.clients[fd].state # CLIENT_INVALID => socks[fd].sess # 0

\* A step of the agent stored to is_blocked of entry fd of the descriptor
\* map and left the entry's type and owner as they were: a store of
\* set_blocked_outerr.
AgentFlowStore(fd) ==
    /\ agent'.process_fd[fd].is_blocked # agent.process_fd[fd].is_blocked
    /\ agent'.process_fd[fd].type = agent.process_fd[fd].type
    /\ agent'.process_fd[fd].client_id = agent.process_fd[fd].client_id

\* C28: XON(id) and XOFF(id) change is_blocked only on valid entries of the
\* descriptor map whose client_id is id, and only while id has a live
\* process record.
FlowTouchesNamedStreamOnly ==
    [][\A fd \in PFds :
         AgentFlowStore(fd)
           => /\ ReadReady(d2a)
              /\ Head(d2a).type \in {MSG_XON, MSG_XOFF}
              /\ agent.client_info[Head(d2a).client_id].pid # 0
              /\ agent.process_fd[fd].type # FDTYPE_INVALID
              /\ agent.process_fd[fd].client_id = Head(d2a).client_id]_vars

\* C29: a step in which flush_client_data shortens the stdin buffer of a
\* process record delivers to the child's stdin as many bytes as it removes
\* from the buffer.
FlushRemovesWhatWasWritten ==
    [][\A c \in ClientFds :
         LET info == agent.client_info[c]
             after == agent'.client_info[c]
         IN  (/\ info.pid # 0 /\ after.pid = info.pid /\ after.sess = info.sess
              /\ Len(after.buffer) < Len(info.buffer))
             => hist'.stdin[info.sess].n - hist.stdin[info.sess].n
                  = Len(info.buffer) - Len(after.buffer)]_vars

\* A step closes the stdin of the process record c and keeps the record.
StdinClosedBy(c) ==
    /\ agent.client_info[c].pid # 0
    /\ agent'.client_info[c].pid = agent.client_info[c].pid
    /\ agent'.client_info[c].sess = agent.client_info[c].sess
    /\ agent.client_info[c].stdin_fd # -1
    /\ agent'.client_info[c].stdin_fd = -1

\* The first half of C30: no step closes the stdin of a record whose buffer
\* holds bytes unless that step is the flush that empties the buffer.
EofNotBeforeFlush ==
    [][\A c \in ClientFds :
         (StdinClosedBy(c) /\ agent.client_info[c].buffer # <<>>)
           => agent.client_info[c].is_close_after_flush_needed # 0]_vars

\* C30: an INPUT of length 0 that finds the stdin buffer non-empty does not
\* close stdin; the flush that closes it afterwards does so when every byte
\* the client sent in the session has been written to the child's stdin.
DeferredStdinEof ==
    [][\A c \in ClientFds :
         LET info == agent.client_info[c]
         IN  (StdinClosedBy(c) /\ info.buffer # <<>>)
               => /\ info.is_close_after_flush_needed # 0
                  /\ socks[c].sess = info.sess
                       => /\ hist'.stdin[info.sess].n = socks[c].nread
                          /\ ~hist'.stdin[info.sess].bad]_vars

AgentEmitsExit(c, statuses) ==
    \E k \in (Len(AgentFrames) + 1)..(Len(a2d') + Len(a_pend')) :
        LET f == (a2d' \o a_pend')[k]
        IN  /\ f.type = MSG_AGENT_TO_SERVER_EXIT_CODE /\ f.client_id = c
            /\ f.data[1] \in statuses

AlwaysListening ==
    (~Halted /\ ~DBlocked /\ daemon.pc = "top")
        => {qrexec_daemon_unix_socket_fd, vfd} \subseteq DSelectReadSet

\* A step of the daemon tears down the client fd.
TornDown(fd) ==
    /\ daemon.clients[fd].state # CLIENT_INVALID
    /\ daemon'.clients[fd].state = CLIENT_INVALID

\* The CLIENT_END frames for fd that the daemon wrote in this step.
ClientEndsWritten(fd) ==
    {k \in (Len(DaemonFrames) + 1)..(Len(d2a') + Len(d_pend')) :
        LET f == (d2a' \o d_pend')[k]
        IN  f.type = MSG_SERVER_TO_AGENT_CLIENT_END /\ f.client_id = fd}

\* The daemon forked a helper in this step.
HelperForked == kids'.d_run = kids.d_run + 1

\* C33: a teardown leaves the record INVALID and empty, closes
\* the socket, writes one CLIENT_END, and forks a helper whenever the record
\* held bytes owed to the socket.
TeardownAlwaysFlushes ==
    [][\A fd \in ClientFds :
         TornDown(fd)
           => /\ daemon'.clients[fd] = NoClient
              /\ socks'[fd] = ClosedSock
              /\ Cardinality(ClientEndsWritten(fd)) = 1
              /\ daemon.clients[fd].buffer # <<>> => HelperForked]_vars

\* The daemon is in the middle of writing XON for the client fd.
XonPending(fd) ==
    \E k \in 1..Len(d_pend) : d_pend[k].type = MSG_XON /\ d_pend[k].client_id = fd

\* C34: the XON that the daemon writes for a connected client, once the
\* client has taken the buffered bytes, gets to the agent: the daemon is not
\* held in the write of it by an agent that is itself held in a write.
BackpressureReleased ==
    \A fd \in ClientFds :
        (XonPending(fd) /\ socks[fd].sess # 0 /\ ~Halted)
            => ~(WriterBlocked(d2a, d_pend, D2ACap) /\ WriterBlocked(a2d, a_pend, A2DCap))

\* C35: a client record that has CLIENT_EOF set has CLIENT_DONT_READ set.
EofStaysEof ==
    \A fd \in ClientFds :
        "EOF" \in daemon.clients[fd].state => "DONT_READ" \in daemon.clients[fd].state

\* The types of the frames that start a session in the agent.
CommandTypes ==
    {MSG_SERVER_TO_AGENT_EXEC_CMDLINE, MSG_SERVER_TO_AGENT_JUST_EXEC,
     MSG_SERVER_TO_AGENT_CONNECT_EXISTING}

\* C36: among the frames the daemon has written and the agent has not yet
\* taken, a command for a client id is separated from every earlier frame
\* for that id by a CLIENT_END for the id, and the CLIENT_END of a session is
\* followed by no other frame of that session than a CLIENT_END; and when a
\* command is the next frame the agent takes, the agent has no live process
\* record for its id.
ClientEndBeforeReuse ==
    /\ \A i, j \in 1..Len(DaemonFrames) :
          (/\ i < j
           /\ DaemonFrames[i].type = MSG_SERVER_TO_AGENT_CLIENT_END
           /\ DaemonFrames[j].tag = DaemonFrames[i].tag)
            => DaemonFrames[j].type = MSG_SERVER_TO_AGENT_CLIENT_END
    /\ \A i, j \in 1..Len(DaemonFrames) :
          (/\ i < j
           /\ DaemonFrames[j].type \in CommandTypes
           /\ DaemonFrames[i].client_id = DaemonFrames[j].client_id)
            => \E k \in i..(j - 1) :
                 /\ DaemonFrames[k].type = MSG_SERVER_TO_AGENT_CLIENT_END
                 /\ DaemonFrames[k].client_id = DaemonFrames[j].client_id
    /\ (ReadReady(d2a) /\ Head(d2a).type \in CommandTypes
                       /\ Head(d2a).client_id \in ClientFds)
            => agent.client_info[Head(d2a).client_id].pid = 0

\* The command of a second session on a client id is the next frame the
\* agent takes, and the agent has had a process record for the first
\* session on that id.
ReusedIdCommandArrives ==
    /\ ReadReady(d2a)
    /\ Head(d2a).type \in CommandTypes
    /\ Head(d2a).client_id \in ClientFds
    /\ Head(d2a).tag = 2
    /\ agent.client_info[Head(d2a).client_id].sess = 1

\* C38: for every live process record of the agent is_blocked is set exactly
\* when its stdin buffer holds bytes, and for every client record of the
\* daemon that is valid and not flagged CLIENT_EXITED, CLIENT_OUTQ_FULL is
\* set exactly when its buffer holds bytes.
BlockedMatchesBuffer ==
    /\ \A c \in ClientFds :
          LET info == agent.client_info[c]
          IN  info.pid # 0 => (info.is_blocked # 0 <=> info.buffer # <<>>)
    /\ \A fd \in ClientFds :
          LET cl == daemon.clients[fd]
          IN  (cl.state # CLIENT_INVALID /\ "EXITED" \notin cl.state)
                => ("OUTQ_FULL" \in cl.state <=> cl.buffer # <<>>)

\* A record of the agent and a record of the daemon hold bytes at once.
BothSidesBuffering ==
    /\ \E c \in ClientFds :
          agent.client_info[c].pid # 0 /\ agent.client_info[c].buffer # <<>>
    /\ \E fd \in ClientFds :
          /\ "EXITED" \notin daemon.clients[fd].state
          /\ daemon.clients[fd].buffer # <<>>

OverlongFrameRefused ==
    (hdr_who # "none" /\ hdr_in.len > MAX_DATA_CHUNK) => hdr_res = "exit"

NameAlphabet == (65..90) \cup (97..122) \cup (48..57) \cup {36, 95, 46, 45, 32}

\* The string received in a field: its bytes before the first NUL, and at
\* most as many as the field can hold with its terminator.
ReceivedString(x) == SubSeq(x, 1, Min(StrLen(x, 1), Len(x) - 1))

\* The sanitized field out is NUL-terminated in place, holds only bytes of
\* the alphabet, and is the string received in field in, with '_' in the place
\* of every byte outside the alphabet.
FieldSanitized(in, out) ==
    LET r == ReceivedString(in)
        s == CStr(out)
    IN  /\ Len(out) = Len(in)
        /\ \E i \in 1..Len(out) : out[i] = 0
        /\ Len(s) = Len(r)
        /\ \A k \in 1..Len(s) :
              /\ s[k] \in NameAlphabet
              /\ s[k] = IF r[k] \in NameAlphabet THEN r[k] ELSE 95

\* C12: whatever the 128 bytes of a trigger record, each of the three
\* strings handed to the policy child is NUL-terminated inside its field,
\* holds only bytes of the alphabet and equals the received string with the
\* other bytes replaced by '_'.
TriggerSanitized ==
    trig_in # NoParams =>
        /\ FieldSanitized(exec_index(trig_in), exec_index(trig_out[1]))
        /\ FieldSanitized(target_vmname(trig_in), target_vmname(trig_out[1]))
        /\ FieldSanitized(process_fds_ident(trig_in), process_fds_ident(trig_out[1]))
        /\ trig_out[2][4] = CStr(exec_index(trig_out[1]))
        /\ trig_out[2][3] = CStr(target_vmname(trig_out[1]))
        /\ trig_out[2][5] = CStr(process_fds_ident(trig_out[1]))

\* A record whose service field holds no NUL and starts with a byte above
\* 127 and a ';' has been sanitized.
UnterminatedServiceSanitized ==
    /\ trig_in # NoParams
    /\ \A i \in 1..ExecIndexSize : exec_index(trig_in)[i] # 0
    /\ exec_index(trig_in)[1] = 200
    /\ exec_index(trig_in)[2] = 59
    /\ Len(CStr(exec_index(trig_out[1]))) = ExecIndexSize - 1

ScenarioReceived == exec_index(trig_in) = FieldOf(ScenarioService, 0, ExecIndexSize)

\* C13 as claimed: the service "foo;rm -rf /" reaches the policy child as
\* "foo_rm_-rf__", target and ident unchanged, in an argv of four arguments
\* after the program name.
ScenarioAsClaimed ==
    ScenarioReceived =>
        /\ trig_out[2][4] = <<102, 111, 111, 95, 114, 109, 95, 45, 114, 102, 95, 95>>
        /\ trig_out[2][3] = ScenarioTarget
        /\ trig_out[2][5] = ScenarioIdent
        /\ Len(trig_out[2]) = 5

\* C13: the service "foo;rm -rf /" reaches the policy child as
\* "foo_rm -rf _" (';' and '/' replaced, the spaces kept), target "vm1"
\* and ident "0 1 2" unchanged, in an argv of four arguments after the
\* program name.
ScenarioSpacesKept ==
    ScenarioReceived =>
        /\ trig_out[2][4] = <<102, 111, 111, 95, 114, 109, 32, 45, 114, 102, 32, 95>>
        /\ trig_out[2][3] = ScenarioTarget
        /\ trig_out[2][5] = ScenarioIdent
        /\ Len(trig_out[2]) = 5

\* The record of the scenario has been handled.
ScenarioHandled ==
    /\ ScenarioReceived
    /\ process_fds_ident(trig_out[1]) = FieldOf(ScenarioIdent, 0, IdentSize)

\* ---------------------------------------------------------------------
\* Claims about the children counter (SpecChildren)
\* ---------------------------------------------------------------------

\* C14: the daemon's counter of live children never exceeds MAX_CHILDREN
\* in any reachable state.
ChildrenCapped == chld_count <= MAX_CHILDREN

\* ---------------------------------------------------------------------
\* Claims about the buffer limit (SpecBuffer)
\* ---------------------------------------------------------------------

RECURSIVE SumLens(_)
SumLens(b) == IF b = 0 THEN 0 ELSE buflen(b) + SumLens(b - 1)

\* C15 as stated: while the process has not terminated, the lengths of all
\* its stream buffers add up to strictly less than BUFFER_LIMIT.
BufferCapStrict == ~mem_exited => SumLens(NumBufs) < BUFFER_LIMIT

\* C15: while the process has not terminated, the counter is the sum of
\* the lengths of all its stream buffers and is at most BUFFER_LIMIT (so a
\* counter over BUFFER_LIMIT is found in terminated states only).
BufferCapInclusive ==
    ~mem_exited => (total_mem = SumLens(NumBufs) /\ total_mem <= BUFFER_LIMIT)

BuffersFull == ~mem_exited /\ SumLens(NumBufs) = BUFFER_LIMIT

\* The sum of the lengths once the call of bo has returned: in a terminated
\* state the lengths are still those the call started from.
SumAfterCall ==
    IF bo_op = "buffer_append" THEN SumLens(NumBufs) + bo_len
    ELSE SumLens(NumBufs) - bo_len

\* C40: buffer_append or buffer_remove terminates the process only if the
\* buffers would hold more than BUFFER_LIMIT bytes in all after the call;
\* buffer_remove never terminates it.
NoPrematureLimitExit ==
    mem_exited => (SumAfterCall > BUFFER_LIMIT /\ bo_op # "buffer_remove")

\* The second part of C40 alone: no call of buffer_remove terminates the
\* process.
DrainNeverExits == mem_exited => bo_op # "buffer_remove"

\* ---------------------------------------------------------------------
\* Claims about the isolation of records (SpecIsolation)
\* ---------------------------------------------------------------------

\* The descriptors that process_fd[] gives to record c in the world w.
FdsOf(w, c) ==
    {fd \in AFds : w.process_fd[fd].type # FDTYPE_INVALID /\ w.process_fd[fd].client_id = c}

\* The handler that left the world w sent EXIT_CODE status for record c.
ExitCodeSent(w, c, status) ==
    \E k \in 1..Len(w.out) :
        /\ w.out[k].type = MSG_AGENT_TO_SERVER_EXIT_CODE
        /\ w.out[k].client_id = c
        /\ w.out[k].data = <<status>>

\* The step left the record o of the agent as it was.
AgentRecordKept(o) ==
    /\ iso_agent'.client_info[o] = iso_agent.client_info[o]
    /\ FdsOf(iso_agent', o) = FdsOf(iso_agent, o)
    /\ \A fd \in FdsOf(iso_agent, o) :
         /\ iso_agent'.process_fd[fd] = iso_agent.process_fd[fd]
         /\ iso_agent'.afds[fd] = iso_agent.afds[fd]
    /\ \A fd \in AFds :
         iso_agent.afds[fd].sess = o + 1 => iso_agent'.afds[fd] = iso_agent.afds[fd]

\* The agent's part: a write error on the stdin of a child or a read error on its
\* stdout or stderr removes the record of that child, sends EXIT_CODE 128 or
\* 127 for it, leaves every other record as it was and the agent running.
AgentErrorIsolated ==
    \A c \in IsoIds :
         (iso_ev'[2] = c /\ iso_ev'[1] \in {"stdin_error", "read_error"}) =>
            /\ ~iso_agent'.exited
            /\ iso_agent'.client_info[c].pid = 0
            /\ FdsOf(iso_agent', c) = {}
            /\ ExitCodeSent(iso_agent', c, IF iso_ev'[1] = "stdin_error" THEN 128 ELSE 127)
            /\ \A o \in IsoIds \ {c} : AgentRecordKept(o)

\* The daemon's part: a read or write error on the socket of a client leaves
\* every other client record and its socket as they were and the daemon
\* running; after a read error the record of the client is closed, after a
\* write error it is closed or marked CLIENT_EXITED.
DaemonErrorIsolated ==
    \A fd \in IsoIds :
         (iso_ev'[2] = fd /\ iso_ev'[1] \in {"sock_read_error", "sock_write_error"}) =>
            /\ ~iso_daemon'.exited
            /\ iso_ev'[1] = "sock_read_error" => iso_daemon'.clients[fd] = NoClient
            /\ \/ iso_daemon'.clients[fd] = NoClient
               \/ "EXITED" \in iso_daemon'.clients[fd].state
            /\ \A o \in IsoIds \ {fd} :
                 /\ iso_daemon'.clients[o] = iso_daemon.clients[o]
                 /\ iso_daemon'.socks[o] = iso_daemon.socks[o]

ClosedRingRefusesIO ==
    [][(server_closed \/ client_closed) =>
          /\ (w_pc \in {"idle", "wait"} /\ w_pc' = "copy") => w_avail' = 0
          /\ (r_pc \in {"idle", "wait"} /\ r_pc' = "copy") => r_avail' = 0]_vars

CorruptIndicesFatal ==
    [][(r_pc = "idle" /\ libvchan_data_ready > RingSize)
          => ~(r_pc' = "copy" /\ r_avail' > 0)]_vars

\* ---------------------------------------------------------------------
\* Claims about the end of the transport (SpecEof)
\* ---------------------------------------------------------------------

\* C22: an agent that has left its loop because the transport ended has
\* exited with a status that is not 0.
EofExitsNonZero == ag_pc = "exited" => ag_status # 0

\* ---------------------------------------------------------------------
\* Claims about the main loops (SpecFlow)
\* ---------------------------------------------------------------------

\* C26: the agent reads no descriptor of a child whose is_blocked an XOFF
\* has set and no XON has cleared, and the daemon reads no client socket
\* whose record has CLIENT_DONT_READ, a descriptor that select gave as
\* readable earlier in the same iteration included.
XoffTakesEffectAtOnce ==
    [][/\ (lp_who = "agent" /\ lp'[4] # -1)
            => iso_agent.process_fd[lp'[4]].is_blocked = 0
       /\ (lp_who = "daemon" /\ lp'[4] # -1)
            => "DONT_READ" \notin iso_daemon.clients[lp'[4]].state]_vars

\* ---------------------------------------------------------------------
\* Properties of SpecDefaultUser
\* ---------------------------------------------------------------------

\* The body begins with "DEFAULT:".
BeginsWithKeyword(buf) ==
    /\ Len(buf) >= Len(default_user_keyword)
    /\ SubSeq(buf, 1, Len(default_user_keyword)) = default_user_keyword

\* C37: a body that begins with "DEFAULT:" is forwarded as the default user
\* followed by the body from its colon on, any other body byte for byte; the
\* len field is the number of bytes forwarded.
DefaultUserRewritten ==
    du_pc = "passed"
        => /\ du_frame.len = Len(du_frame.bytes)
           /\ du_frame.bytes =
                IF BeginsWithKeyword(du_buf)
                THEN default_user
                     \o SubSeq(du_buf, default_user_keyword_len_without_colon + 1, Len(du_buf))
                ELSE du_buf

\* The same for the bodies of 8 bytes and more, where strncmp stays inside
\* buf.
DefaultUserRewrittenInBounds ==
    (du_pc = "passed" /\ Len(du_buf) >= Len(default_user_keyword))
        => /\ du_frame.len = Len(du_frame.bytes)
           /\ du_frame.bytes =
                IF BeginsWithKeyword(du_buf)
                THEN default_user
                     \o SubSeq(du_buf, default_user_keyword_len_without_colon + 1, Len(du_buf))
                ELSE du_buf
====
